---- MODULE Spec2Model ----
(***************************************************************************)
(* QuizBotNew: the delivery engine (worker.py post_sequence), the bot of   *)
(* main.py that stashes parsed quizzes and starts delivery threads, and    *)
(* the bot of app.py that stores jobs and runs them as asyncio tasks.      *)
(***************************************************************************)
EXTENDS Integers, Sequences, FiniteSets, TLC

\* ------------------------------------------------------------------ bounds
\* longest sequence handed to one post_sequence invocation under Spec
MaxLen == 3
\* largest retry_after (seconds) the gateway puts in a RetryAfter signal
MaxWait == 2

\* --------------------------------------------------------- program constants
max_retries == 4
sequential_fail_abort == 3
poll_delay_short == 1
poll_delay_long == 2
\* len(sequence) <= 50 selects the short delay
LongSequence == 50
\* backoff = min(2 ** attempt, 30)
BackoffCap == 30

\* the invocations (threads) of post_sequence that may exist at once
Threads == {1, 2}

\* None, for an Optional[int] / Optional[str] argument
None == 0

\* ------------------------------------------------------------ sequence items
\* Option labels are letters; a label is held as its position in the
\* alphabet ("A" = 1, "B" = 2, ...), which keeps Python's string order.
\* ans = -1 stands for an "ans" value that is not a string.
NotAString == -1

DesItem == [type |-> "des", options |-> <<>>, ans |-> None]
QuestionOk == [type |-> "question", options |-> <<"3", "4", "5", "6">>, ans |-> 2]
QuestionBadAns == [type |-> "question", options |-> <<"3", "4", "5", "6">>, ans |-> 5]
QuestionOneOption == [type |-> "question", options |-> <<"3">>, ans |-> 1]
QuestionAnsNotStr == [type |-> "question", options |-> <<"3", "4", "5", "6">>, ans |-> NotAString]
UnknownItem == [type |-> "note", options |-> <<>>, ans |-> None]

ItemKinds == {DesItem, QuestionOk, QuestionBadAns, QuestionAnsNotStr, UnknownItem}

RECURSIVE SeqsUpTo(_, _)
SeqsUpTo(S, n) == IF n = 0 THEN {<<>>} ELSE SeqsUpTo(S, n - 1) \cup [1..n -> S]

Sequences == SeqsUpTo(ItemKinds, MaxLen)

\* sorted(options_map.keys())
RECURSIVE SortedLabels(_)
SortedLabels(S) ==
    IF S = {} THEN <<>>
    ELSE LET m == CHOOSE x \in S : \A y \in S : x <= y
         IN <<m>> \o SortedLabels(S \ {m})

\* _letter_to_index: the 0-based position of letter in ordered_labels, or
\* -1 for None (empty letter, or letter not in the list)
NoIndex == -1

\* a mapping that takes the letter's place in the alphabet for its index
letter_to_index_in_alphabet(letter, ordered_labels) == letter - 1

letter_to_index(letter, ordered_labels) ==
    IF letter = None THEN NoIndex
    ELSE IF \E i \in 1..Len(ordered_labels) : ordered_labels[i] = letter
         THEN (CHOOSE i \in 1..Len(ordered_labels) : ordered_labels[i] = letter) - 1
         ELSE NoIndex

ordered_labels(item) == SortedLabels(DOMAIN item.options)
option_texts(item) == [i \in 1..Len(ordered_labels(item)) |-> item.options[ordered_labels(item)[i]]]
correct_index(item) == letter_to_index(item.ans, ordered_labels(item))

\* (item.get("ans") or "").strip() raises AttributeError when ans is not a string
RaisesUnhandled(item) == item.type = "question" /\ item.ans = NotAString

\* len(option_texts) < 2 or correct_index is None
InvalidQuestion(item) == Len(option_texts(item)) < 2 \/ correct_index(item) = NoIndex

\* ------------------------------------------------------------------ gateway
\* What the gateway answers to one send_poll call: success, RetryAfter with
\* retry_after = wait (0 stands for a missing or zero retry_after), another
\* TelegramError (transient: network, permanent: bad request), or an
\* exception that is no TelegramError.
PollResponses ==
    {[kind |-> k, wait |-> 0] : k \in {"ok", "transient", "permanent", "other"}}
        \cup {[kind |-> "ra", wait |-> w] : w \in 0..MaxWait}

Min(a, b) == IF a <= b THEN a ELSE b
Max(a, b) == IF a >= b THEN a ELSE b

\* a wait of one second whatever the gateway demanded
RetryWaitIgnored(retry_after) == 1

\* wait = getattr(ra, "retry_after", None) or 1
RetryWait(retry_after) == IF retry_after = 0 THEN 1 ELSE retry_after

\* backoff = min(2 ** attempt, 30)
Backoff(attempt) == Min(2 ^ attempt, BackoffCap)

\* the delay slept after a posted poll
PaceDelay(sequence) == IF Len(sequence) <= LongSequence THEN poll_delay_short ELSE poll_delay_long

\* an iteration that goes back to item 1 after item 2
NextIdxBackOnce(idx) == IF idx = 2 THEN 1 ELSE idx + 1

\* enumerate(sequence, start=1): the index after idx
NextIdx(idx) == idx + 1

\* a breaker that opens one failure later
AbortNowLate(failures) == failures > sequential_fail_abort

\* consecutive_failures >= sequential_fail_abort
AbortNow(failures) == failures >= sequential_fail_abort

\* the attempt counter after a RetryAfter answer (attempt += 1)
AttemptAfterRetryAfter(attempt) == attempt + 1

\* ------------------------------------------------------------------- state
VARIABLES
    arg,            \* arg[t]: the arguments of invocation t of post_sequence
    run,            \* run[t]: its locals: pc, idx, attempt, sent_count, consecutive_failures
    obs,            \* obs[t]: what an observer of the gateway has seen of invocation t
    notified_jobs,  \* worker._notified_jobs
    program,        \* which entry point runs: "worker" (post_sequence alone), "main", "app"
    JOB_STASH,      \* main.JOB_STASH: job_id -> payload
    closure,        \* closure[t]: what started thread t, and the job_id and chat it closes over
    jobs,           \* app: the rows of Job: id -> status, raw_text, actions
    JOB_SELECTIONS, \* app.JOB_SELECTIONS: job_id -> set of chat ids
    job_targets,    \* app: the rows of JobTarget, in insertion order
    tasks,          \* app: tasks[k]: the locals of one run_job task
    job_seq,        \* the job ids handed out so far are 1..job_seq
    started,        \* started[j]: delivery runs started for job j
    created,        \* created[j]: the text job j was created from
    event,          \* the latest text received and what its handler did
    parse,          \* the locals of the running call of validator.validate_and_parse
    bulk,           \* the locals of the running call of parser.parse_bulk
    send            \* the locals of the running call of sender.send_actions_to_chat

botvars == <<program, JOB_STASH, closure, jobs, JOB_SELECTIONS, job_targets, tasks, job_seq, started, created, event,
             parse, bulk, send>>
vars == <<arg, run, obs, notified_jobs, botvars>>

NoArg == [chat_id |-> 0, owner_id |-> None, job_id |-> None, sequence |-> <<>>]
OffRun == [pc |-> "off", idx |-> 0, attempt |-> 0, sent_count |-> 0, consecutive_failures |-> 0]
StartRun == [OffRun EXCEPT !.pc = "loop"]

\* lastCallIdx: the item index of the latest gateway call (0: none yet);
\* maxCallIdx: the largest item index any gateway call was made for;
\* waited: seconds slept since the latest gateway call;
\* required: the wait the gateway demanded in its latest answer;
\* errs: answers to send_poll for the current question that were failures
\*       other than RetryAfter;  ras: those that were RetryAfter;
\* polls: send_poll calls made for the current question;
\* everyPollFailed: no send_poll call has succeeded;
\* failedQ: questions that have failed;  abortIdx: the index the run aborted at;
\* ownerMsgs: messages sent to owner_id;
\* unnotified: the guard of the final section found the key not yet notified;
\* finalConf: the final confirmation was sent to the gateway;
\* sends: send_message calls made to the chat for the current item;
\* desFailed: the gateway refused the current announcement;
\* lastOkIdx: the index of the latest question posted (0: none yet);
\* sentOptions, sentCorrect: options and correct_option_id of the send_poll
\*       calls made for the current question
NoObs ==
    [lastCallIdx |-> 0, maxCallIdx |-> 0, waited |-> 0, required |-> 0, errs |-> 0,
     ras |-> 0, polls |-> 0, everyPollFailed |-> TRUE, failedQ |-> 0, abortIdx |-> 0,
     ownerMsgs |-> 0, unnotified |-> FALSE, finalConf |-> FALSE,
     sends |-> 0, desFailed |-> FALSE, lastOkIdx |-> 0,
     sentOptions |-> <<>>, sentCorrect |-> NoIndex]

\* a gateway call made while item i is processed
Called(o, i) == [o EXCEPT !.lastCallIdx = i, !.maxCallIdx = Max(o.maxCallIdx, i), !.waited = 0, !.required = 0]

\* bot.send_message(owner_id, ...) inside try/except: made only if owner_id;
\* whether the gateway accepts it changes nothing (a failure is only logged)
OwnerNotice(o, owner_id, i) ==
    IF owner_id = None THEN o
    ELSE [Called(o, i) EXCEPT !.ownerMsgs = o.ownerMsgs + 1]

\* ------------------------------------------------- post_sequence, per thread
\* for idx, item in enumerate(sequence, start=1): the loop head and the
\* dispatch on the item's type
Dispatch(t) ==
    /\ run[t].pc = "loop"
    /\ LET n == Len(arg[t].sequence)
           i == NextIdx(run[t].idx)
       IN IF run[t].idx >= n \/ i < 1 \/ i > n
          THEN run' = [run EXCEPT ![t].pc = "final"]
          ELSE LET item == arg[t].sequence[i]
                   next == IF item.type = "des" THEN "des"
                           ELSE IF item.type = "question"
                                THEN IF RaisesUnhandled(item) THEN "unhandled"
                                     ELSE IF InvalidQuestion(item) THEN "invalid"
                                     ELSE "poll"
                                ELSE "loop"
               IN run' = [run EXCEPT ![t].pc = next, ![t].idx = i, ![t].attempt = 0]
    /\ obs' = [obs EXCEPT ![t].errs = 0, ![t].ras = 0, ![t].polls = 0,
                          ![t].sends = 0, ![t].desFailed = FALSE,
                          ![t].sentOptions = <<>>, ![t].sentCorrect = NoIndex]
    /\ UNCHANGED <<arg, notified_jobs, botvars>>

\* a handler that counts a refused announcement as a failure
FailuresAfterDesCounted(failures, accepted) == IF accepted THEN failures ELSE failures + 1

\* except Exception: logger.exception(...): consecutive_failures is not touched
FailuresAfterDes(failures, accepted) == failures

\* bot.send_message(chat_id, text) for a DES item; a failure is only logged
SendDes(t, accepted) ==
    /\ run[t].pc = "des"
    /\ run' = [run EXCEPT ![t].pc = "loop",
                          ![t].consecutive_failures = FailuresAfterDes(@, accepted)]
    /\ obs' = [obs EXCEPT ![t] = [Called(obs[t], run[t].idx) EXCEPT !.sends = @ + 1,
                                                                    !.desFailed = ~accepted]]
    /\ UNCHANGED <<arg, notified_jobs, botvars>>

\* a question that fails validation: counted as a failure without a call
SkipInvalid(t) ==
    /\ run[t].pc = "invalid"
    /\ LET f == run[t].consecutive_failures + 1
           o == [obs[t] EXCEPT !.failedQ = @ + 1]
       IN IF AbortNow(f)
          THEN /\ run' = [run EXCEPT ![t].pc = "returned", ![t].consecutive_failures = f]
               /\ obs' = [obs EXCEPT ![t] = [OwnerNotice(o, arg[t].owner_id, run[t].idx)
                                                EXCEPT !.abortIdx = run[t].idx]]
          ELSE /\ run' = [run EXCEPT ![t].pc = "loop", ![t].consecutive_failures = f]
               /\ obs' = [obs EXCEPT ![t] = o]
    /\ UNCHANGED <<arg, notified_jobs, botvars>>

\* a success that leaves the failure counter as it was
FailuresAfterPostKept(failures) == failures

\* consecutive_failures = 0
FailuresAfterPost(failures) == 0

\* one pass of the retry loop: bot.send_poll and the handling of its answer
SendPoll(t, r) ==
    /\ run[t].pc = "poll"
    /\ run[t].attempt < max_retries
    /\ LET item == arg[t].sequence[run[t].idx]
           o == [Called(obs[t], run[t].idx) EXCEPT !.polls = @ + 1,
                                                   !.sentOptions = option_texts(item),
                                                   !.sentCorrect = correct_index(item)]
       IN CASE r.kind = "ok" ->
                 /\ run' = [run EXCEPT ![t].pc = "loop", ![t].sent_count = @ + 1,
                                       ![t].consecutive_failures = FailuresAfterPost(@)]
                 /\ obs' = [obs EXCEPT ![t] = [o EXCEPT !.everyPollFailed = FALSE,
                                                        !.lastOkIdx = run[t].idx,
                                                        !.waited = PaceDelay(arg[t].sequence)]]
            [] r.kind = "ra" ->
                 LET a == AttemptAfterRetryAfter(run[t].attempt)
                 IN /\ run' = [run EXCEPT ![t].attempt = a,
                                          ![t].pc = IF a < max_retries THEN "poll" ELSE "exhausted"]
                    /\ obs' = [obs EXCEPT ![t] = [o EXCEPT !.ras = @ + 1, !.required = r.wait,
                                                           !.waited = RetryWait(r.wait)]]
            [] OTHER ->
                 LET a == run[t].attempt + 1
                 IN /\ run' = [run EXCEPT ![t].attempt = a,
                                          ![t].pc = IF a < max_retries THEN "poll" ELSE "exhausted"]
                    /\ obs' = [obs EXCEPT ![t] = [o EXCEPT !.errs = @ + 1, !.waited = Backoff(a)]]
    /\ UNCHANGED <<arg, notified_jobs, botvars>>

\* the else branch of the retry loop: the question failed
Exhausted(t) ==
    /\ run[t].pc = "exhausted"
    /\ LET f == run[t].consecutive_failures + 1
           o == OwnerNotice([obs[t] EXCEPT !.failedQ = @ + 1], arg[t].owner_id, run[t].idx)
       IN IF AbortNow(f)
          THEN /\ run' = [run EXCEPT ![t].pc = "returned", ![t].consecutive_failures = f]
               /\ obs' = [obs EXCEPT ![t] = [OwnerNotice(o, arg[t].owner_id, run[t].idx)
                                                EXCEPT !.abortIdx = run[t].idx]]
          ELSE /\ run' = [run EXCEPT ![t].pc = "loop", ![t].consecutive_failures = f]
               /\ obs' = [obs EXCEPT ![t] = o]
    /\ UNCHANGED <<arg, notified_jobs, botvars>>

\* except Exception around the processing of one item
Unhandled(t) ==
    /\ run[t].pc = "unhandled"
    /\ LET f == run[t].consecutive_failures + 1
           o == [obs[t] EXCEPT !.failedQ = @ + 1]
       IN IF AbortNow(f)
          THEN /\ run' = [run EXCEPT ![t].pc = "returned", ![t].consecutive_failures = f]
               /\ obs' = [obs EXCEPT ![t] = [OwnerNotice(o, arg[t].owner_id, run[t].idx)
                                                EXCEPT !.abortIdx = run[t].idx]]
          ELSE /\ run' = [run EXCEPT ![t].pc = "loop", ![t].consecutive_failures = f]
               /\ obs' = [obs EXCEPT ![t] = o]
    /\ UNCHANGED <<arg, notified_jobs, botvars>>

\* key = job_id if job_id else f"{chat_id}:{owner_id}:{sent_count}"
GuardKey(t) ==
    IF arg[t].job_id # None THEN <<"job", arg[t].job_id, 0, 0>>
    ELSE <<"run", arg[t].chat_id, arg[t].owner_id, run[t].sent_count>>

\* the final section up to the test "key in _notified_jobs" (db has no
\* mark_job_done, so notified is still False when the test is made)
FinalCheck(t) ==
    /\ run[t].pc = "final"
    /\ run' = [run EXCEPT ![t].pc = IF GuardKey(t) \in notified_jobs THEN "returned" ELSE "final_add"]
    /\ obs' = [obs EXCEPT ![t].unnotified = GuardKey(t) \notin notified_jobs]
    /\ UNCHANGED <<arg, notified_jobs, botvars>>

\* _notified_jobs.add(key), then the confirmation to owner_id
FinalAdd(t) ==
    /\ run[t].pc = "final_add"
    /\ notified_jobs' = notified_jobs \cup {GuardKey(t)}
    /\ run' = [run EXCEPT ![t].pc = "returned"]
    /\ obs' = [obs EXCEPT ![t] =
                  IF arg[t].owner_id = None THEN obs[t]
                  ELSE [obs[t] EXCEPT !.ownerMsgs = @ + 1,
                                      !.finalConf = TRUE]]
    /\ UNCHANGED <<arg, botvars>>

PostSequence(t) ==
    \/ Dispatch(t)
    \/ \E accepted \in BOOLEAN : SendDes(t, accepted)
    \/ SkipInvalid(t)
    \/ \E r \in PollResponses : SendPoll(t, r)
    \/ Exhausted(t)
    \/ Unhandled(t)
    \/ FinalCheck(t)
    \/ FinalAdd(t)

\* ------------------------------------------- one invocation of post_sequence
OwnerIds == {None, 7}
JobIds == {None, 1}

NoClosure == [kind |-> "none", job_id |-> None, chatname |-> ""]
NoTask ==
    [pc |-> "off", job_id |-> None, rows |-> <<>>, actions |-> <<>>, ti |-> 0, ai |-> 0,
     attempts |-> 0, sent |-> 0, failed |-> 0, last_err |-> FALSE, overall_sent |-> 0,
     ownerMsgs |-> 0]
NoEvent == [text |-> <<>>, reply |-> "", job |-> None]

\* no call of validate_and_parse is running
EmptyResult == [ok |-> TRUE, errors |-> <<>>, warnings |-> <<>>, des |-> [some |-> FALSE, text |-> <<>>],
                questions |-> <<>>]
NoParse ==
    [pc |-> "off", raw |-> <<>>, lines |-> <<>>, i |-> 0, seen_q |-> FALSE, in_block |-> FALSE,
     q |-> [index |-> 0], result |-> EmptyResult, todo |-> <<>>, first |-> EmptyResult, calls |-> 0,
     prev_raw |-> <<>>]

\* no call of parse_bulk is running
NoBulk ==
    [pc |-> "off", text |-> <<>>, blocks |-> <<>>, idx |-> 0, actions |-> <<>>,
     result |-> [error |-> FALSE, actions |-> <<>>]]

\* no call of send_actions_to_chat is running
NoSend ==
    [pc |-> "off", actions |-> <<>>, idx |-> 0, attempts |-> 0, sent |-> 0, failed |-> 0,
     errors |-> <<>>, last_err |-> FALSE, calls |-> <<>>]
Tasks == {1, 2}

\* no bot runs: post_sequence, or the parser, is called on its own
NoBot(p) ==
    /\ program = p
    /\ JOB_STASH = <<>>
    /\ closure = [t \in Threads |-> NoClosure]
    /\ jobs = <<>>
    /\ JOB_SELECTIONS = <<>>
    /\ job_targets = <<>>
    /\ tasks = [k \in Tasks |-> NoTask]
    /\ job_seq = 0
    /\ started = <<>>
    /\ created = <<>>
    /\ event = NoEvent

BotIdle(p) ==
    /\ NoBot(p)
    /\ parse = NoParse
    /\ bulk = NoBulk
    /\ send = NoSend

Init ==
    /\ \E s \in Sequences, o \in OwnerIds, j \in JobIds :
          arg = [t \in Threads |->
                   IF t = 1 THEN [chat_id |-> 1, owner_id |-> o, job_id |-> j, sequence |-> s]
                   ELSE NoArg]
    /\ run = [t \in Threads |-> IF t = 1 THEN StartRun ELSE OffRun]
    /\ obs = [t \in Threads |-> NoObs]
    /\ notified_jobs = {}
    /\ BotIdle("worker")

Next == PostSequence(1)

Spec == Init /\ [][Next]_vars

\* --------------------------------------------- validator.validate_and_parse
\* A text is a sequence of lines. A line is held as what the regular
\* expressions of validator.py can see of it: how it starts (tag), the
\* letter after an option tag or the value after ANS: (label, form), and
\* the words that follow (text). The tags "DES", "Q", "ANS", "EXP" and "OPT"
\* are lines written with the upper-case keyword ("DES: hello", "B: 4"); "des",
\* "q", "ans", "exp" and "opt" are the same lines written in lower case;
\* "eg" is a line that contains "Eg("; "blank" is empty after strip();
\* "other" is any other line.
\* form of an ANS value: "upper" / "lower" (one letter, label = its position
\* in the alphabet), "digit" (one digit, label = its value), "multi" (more
\* than one character).
Line(tag, label, form, text) == [tag |-> tag, label |-> label, form |-> form, text |-> text]

\* _strip_eg_lines
RECURSIVE strip_eg_lines(_)
strip_eg_lines(lines) ==
    IF lines = <<>> THEN <<>>
    ELSE IF Head(lines).tag = "eg" THEN strip_eg_lines(Tail(lines))
    ELSE <<Head(lines)>> \o strip_eg_lines(Tail(lines))

\* a pattern for "Q:" that takes either case
q_re_either_case(ln) == ln.tag \in {"Q", "q"}

\* the compiled patterns: each is anchored at the start of the stripped line
\* and is case-sensitive
des_re(ln) == ln.tag = "DES"
q_re(ln) == ln.tag = "Q"
ans_re(ln) == ln.tag = "ANS"
exp_re(ln) == ln.tag = "EXP"
\* ^([A-Z]):...  also matches "Q: ..." (a line the callers test for first)
option_label_re(ln) == ln.tag \in {"OPT", "Q"}

\* the whole stripped line, as appended to an option's text
LineWords(ln) == IF ln.tag = "other" THEN ln.text ELSE <<ln.tag>> \o ln.text

\* Optional[str]
NoText == [some |-> FALSE, text |-> <<>>]
\* a text that is not kept
TextDropped(text) == NoText

SomeText(text) == [some |-> TRUE, text |-> text]

\* q_obj["ans"]: None, an upper-case letter, or the raw value of a malformed ANS
NoAns == [kind |-> "none", label |-> 0]

\* a question that does not keep the text of its Q: line
NewQuestionUntitled(index, text) ==
    [index |-> index, raw_question |-> <<>>, options |-> <<>>, ans |-> NoAns, exp |-> NoText,
     errors |-> <<>>, warnings |-> <<>>]

\* q_obj = {"index": ..., "raw_question": q_text, ...}
NewQuestion(index, text) ==
    [index |-> index, raw_question |-> text, options |-> <<>>, ans |-> NoAns, exp |-> NoText,
     errors |-> <<>>, warnings |-> <<>>]

\* options[label] = text
SetOption(options, label, text) ==
    [l \in DOMAIN options \cup {label} |-> IF l = label THEN text ELSE options[l]]

\* sorted(q_obj["options"].keys())[-1]
LastLabel(options) == CHOOSE l \in DOMAIN options : \A m \in DOMAIN options : m <= l

\* the inner loop: the lines of one question block, from line i on; gives
\* the index of the line that ended the block, the question and the ok flag
RECURSIVE ParseBlock(_, _, _, _)
ParseBlock(lines, i, q, ok) ==
    IF i > Len(lines) THEN [i |-> i, q |-> q, ok |-> ok]
    ELSE LET cur == lines[i]
         IN CASE cur.tag = "blank" -> ParseBlock(lines, i + 1, q, ok)
              [] q_re(cur) -> [i |-> i, q |-> q, ok |-> ok]
              [] des_re(cur) ->
                   ParseBlock(lines, i + 1,
                              [q EXCEPT !.errors = Append(@, <<"DES found inside question block", q.index>>)],
                              FALSE)
              [] ans_re(cur) ->
                   IF cur.form \in {"upper", "lower"}
                   THEN ParseBlock(lines, i + 1, [q EXCEPT !.ans = [kind |-> "letter", label |-> cur.label]], ok)
                   ELSE ParseBlock(lines, i + 1,
                                   [q EXCEPT !.errors = Append(@, <<"ANS must be a single letter", q.index>>),
                                             !.ans = [kind |-> "raw", label |-> cur.label]],
                                   FALSE)
              [] exp_re(cur) ->
                   IF q.ans = NoAns
                   THEN ParseBlock(lines, i + 1,
                                   [q EXCEPT !.errors = Append(@, <<"EXP must come after ANS", q.index>>),
                                             !.exp = SomeText(cur.text)],
                                   FALSE)
                   ELSE ParseBlock(lines, i + 1, [q EXCEPT !.exp = SomeText(cur.text)], ok)
              [] option_label_re(cur) ->
                   ParseBlock(lines, i + 1, [q EXCEPT !.options = SetOption(@, cur.label, cur.text)], ok)
              [] OTHER ->
                   IF DOMAIN q.options # {}
                   THEN ParseBlock(lines, i + 1,
                                   [q EXCEPT !.options[LastLabel(q.options)] = @ \o LineWords(cur)], ok)
                   ELSE ParseBlock(lines, i + 1,
                                   [q EXCEPT !.warnings = Append(@, <<"Unexpected line inside question block", q.index, i>>)],
                                   ok)

\* the errors the checks after a block add: a missing option of A, B, C, D,
\* a missing ANS, an ANS that names no option
RequiredLabels == <<1, 2, 3, 4>>

\* a check that finds no option missing
MissingOptionsNone(q, k) == <<>>

RECURSIVE MissingOptions(_, _)
MissingOptions(q, k) ==
    IF k > Len(RequiredLabels) THEN <<>>
    ELSE (IF RequiredLabels[k] \in DOMAIN q.options THEN <<>>
          ELSE <<<<"missing option", q.index, RequiredLabels[k]>>>>) \o MissingOptions(q, k + 1)

AnsErrors(q) ==
    IF q.ans = NoAns THEN <<<<"Missing ANS", q.index>>>>
    ELSE IF q.ans.kind = "letter" /\ q.ans.label \in DOMAIN q.options THEN <<>>
    ELSE <<<<"ANS does not match any option", q.index>>>>

CloseBlock(q) == [q EXCEPT !.errors = @ \o MissingOptions(q, 1) \o AnsErrors(q)]

\* the outer loop, from line i on
RECURSIVE ParseLines(_, _, _, _)
ParseLines(lines, i, seen_q, result) ==
    IF i > Len(lines) THEN result
    ELSE LET ln == lines[i]
         IN CASE ln.tag = "blank" -> ParseLines(lines, i + 1, seen_q, result)
              [] des_re(ln) /\ ~seen_q ->
                   ParseLines(lines, i + 1, seen_q, [result EXCEPT !.des = SomeText(ln.text)])
              [] des_re(ln) /\ seen_q ->
                   ParseLines(lines, i + 1, seen_q,
                              [result EXCEPT !.errors = Append(@, <<"DES found inside question block", i>>),
                                             !.ok = FALSE])
              [] q_re(ln) ->
                   LET b == ParseBlock(lines, i + 1, NewQuestion(Len(result.questions) + 1, ln.text), result.ok)
                       q == CloseBlock(b.q)
                   IN ParseLines(lines, b.i, TRUE,
                                 [result EXCEPT !.ok = b.ok /\ Len(q.errors) = Len(b.q.errors),
                                                !.questions = Append(@, q)])
              [] OTHER ->
                   ParseLines(lines, i + 1, seen_q,
                              IF ans_re(ln)
                              THEN [result EXCEPT !.warnings = Append(@, <<"ANS found outside any question block", i>>)]
                              ELSE IF exp_re(ln)
                              THEN [result EXCEPT !.warnings = Append(@, <<"EXP found outside any question block", i>>)]
                              ELSE result)

\* a result that keeps ok when no question was found
NoQuestionsKeepOk(result) ==
    IF Len(result.questions) = 0
    THEN [result EXCEPT !.errors = Append(@, <<"No questions found", 0>>)]
    ELSE result

\* the result when no question was found
NoQuestionsCheck(result) ==
    IF Len(result.questions) = 0
    THEN [result EXCEPT !.errors = Append(@, <<"No questions found", 0>>), !.ok = FALSE]
    ELSE result

validate_and_parse(raw_text) ==
    NoQuestionsCheck(ParseLines(strip_eg_lines(raw_text), 1, FALSE,
                                [ok |-> TRUE, errors |-> <<>>, warnings |-> <<>>, des |-> NoText,
                                 questions |-> <<>>]))

\* ------------------------------------------------------- parser.parse_bulk
\* A bulk text is a sequence of lines, each held as what the patterns of
\* parser.py see of it (kind): "msg" and "q" match BLOCK_START_RE ("#MSG",
\* "#Q", "#Q1"), "opt" matches OPTION_RE ("B) 4"), "ans" matches ANSWER_RE
\* ("#ANS: B"), "exp" matches EXP_RE ("#EXP: because"), "blank" is empty
\* after strip(), "text" is any other line. text holds the words captured
\* (the option text, the explanation, the line itself); val holds an #ANS
\* value or an option's label: form "num" with n its number, or form "letter"
\* with n the letter's position in the alphabet, or form "word"; w is the
\* value in upper case.
BulkLine(kind, text, val) == [kind |-> kind, text |-> text, val |-> val]
NoVal == [form |-> "none", n |-> 0, w |-> ""]

BLOCK_START_RE(ln) == ln.kind \in {"msg", "q"}
OPTION_RE(ln) == ln.kind = "opt"
ANSWER_RE(ln) == ln.kind = "ans"
EXP_RE(ln) == ln.kind = "exp"

\* ln.strip(): the whole line, as the words it is made of
WholeLine(ln) ==
    CASE ln.kind = "opt" -> <<ln.val.w, ")">> \o ln.text
      [] ln.kind = "ans" -> <<"#ANS:", ln.val.w>>
      [] ln.kind = "exp" -> <<"#EXP:">> \o ln.text
      [] ln.kind = "msg" -> <<"#MSG">>
      [] ln.kind = "q" -> <<"#Q">>
      [] OTHER -> ln.text

\* the lines from j on up to the next block start
RECURSIVE BlockContent(_, _)
BlockContent(lines, j) ==
    IF j > Len(lines) \/ BLOCK_START_RE(lines[j]) THEN <<>>
    ELSE <<lines[j]>> \o BlockContent(lines, j + 1)

\* split_blocks, from line i on
RECURSIVE split_blocks_from(_, _)
split_blocks_from(lines, i) ==
    IF i > Len(lines) THEN <<>>
    ELSE IF BLOCK_START_RE(lines[i])
         THEN LET content == BlockContent(lines, i + 1)
              IN <<[type |-> IF lines[i].kind = "msg" THEN "MSG" ELSE "Q", lines |-> content]>>
                    \o split_blocks_from(lines, i + 1 + Len(content))
         ELSE split_blocks_from(lines, i + 1)

split_blocks(text) == split_blocks_from(text, 1)

\* l.split()[0].strip(').:').upper() for the words used here (all in upper
\* case already, none with a leading or trailing ')', '.' or ':')
FirstWordUpper(text) == text[1]

NoAnswerIndex == -1

\* normalize_label_to_index; NoAnswerIndex for None
normalize_label_to_index(label, labels) ==
    IF label.form = "num" /\ 1 <= label.n /\ label.n <= Len(labels) THEN label.n - 1
    ELSE IF label.form = "letter" /\ label.n - 1 < Len(labels) THEN label.n - 1
    ELSE IF \E i \in 1..Len(labels) : FirstWordUpper(labels[i]) = label.w
         THEN (CHOOSE i \in 1..Len(labels) :
                  /\ FirstWordUpper(labels[i]) = label.w
                  /\ \A k \in 1..(i - 1) : FirstWordUpper(labels[k]) # label.w) - 1
    ELSE NoAnswerIndex

\* a join that keeps no line
JoinNothing(lines) == <<>>

\* the non-blank lines of a block, joined
RECURSIVE JoinNonBlank(_)
JoinNonBlank(lines) ==
    IF lines = <<>> THEN <<>>
    ELSE (IF Head(lines).kind = "blank" THEN <<>> ELSE WholeLine(Head(lines))) \o JoinNonBlank(Tail(lines))

\* the first loop over a Q block: the question lines, up to the first option
RECURSIVE QuestionLines(_, _)
QuestionLines(lines, i) ==
    IF i > Len(lines) \/ OPTION_RE(lines[i]) THEN [i |-> i, q_lines |-> <<>>]
    ELSE LET rest == QuestionLines(lines, i + 1)
         IN [i |-> rest.i,
             q_lines |-> (IF lines[i].kind = "blank" THEN <<>> ELSE WholeLine(lines[i])) \o rest.q_lines]

\* the lines an #EXP line absorbs: those after it up to the next tag line
RECURSIVE ExpExtra(_, _)
ExpExtra(lines, j) ==
    IF j > Len(lines) \/ ANSWER_RE(lines[j]) \/ EXP_RE(lines[j]) \/ OPTION_RE(lines[j]) THEN <<>>
    ELSE <<lines[j]>> \o ExpExtra(lines, j + 1)

\* the second loop over a Q block: options, answer and explanation
RECURSIVE CollectOptions(_, _, _)
CollectOptions(lines, i, acc) ==
    IF i > Len(lines) THEN acc
    ELSE LET ln == lines[i]
         IN CASE OPTION_RE(ln) ->
                   CollectOptions(lines, i + 1, [acc EXCEPT !.option_lines = Append(@, ln.text)])
              [] ANSWER_RE(ln) ->
                   CollectOptions(lines, i + 1, [acc EXCEPT !.answer = ln.val])
              [] EXP_RE(ln) ->
                   LET extra == ExpExtra(lines, i + 1)
                   IN CollectOptions(lines, i + 1 + Len(extra),
                                     [acc EXCEPT !.explanation = ln.text \o JoinNonBlank(extra)])
              [] OTHER -> CollectOptions(lines, i + 1, acc)

ParseErrorResult == [error |-> TRUE, actions |-> <<>>]

\* a check that lets every number of options pass
TooFewOptionsNever(option_lines) == FALSE

\* len(option_lines) < 2
TooFewOptions(option_lines) == Len(option_lines) < 2

NoAction == [type |-> "none", text |-> <<>>, options |-> <<>>, answer_index |-> NoAnswerIndex, explanation |-> <<>>]

\* one pass of the loop over the blocks: "skip" for an empty MSG block,
\* "raise" where ParseError is raised, else "append" with the action
BlockOutcome(b) ==
    IF b.type = "MSG"
    THEN LET joined == JoinNonBlank(b.lines)
         IN IF joined = <<>> THEN [kind |-> "skip", action |-> NoAction]
            ELSE [kind |-> "append",
                  action |-> [type |-> "MSG", text |-> joined, options |-> <<>>,
                              answer_index |-> NoAnswerIndex, explanation |-> <<>>]]
    ELSE LET ql == QuestionLines(b.lines, 1)
             c == CollectOptions(b.lines, ql.i,
                                 [option_lines |-> <<>>, answer |-> NoVal, explanation |-> <<>>])
             ai == IF c.answer = NoVal THEN NoAnswerIndex
                   ELSE normalize_label_to_index(c.answer, c.option_lines)
         IN IF ql.q_lines = <<>> THEN [kind |-> "raise", action |-> NoAction]
            ELSE IF TooFewOptions(c.option_lines) THEN [kind |-> "raise", action |-> NoAction]
            ELSE IF c.answer # NoVal /\ ai = NoAnswerIndex THEN [kind |-> "raise", action |-> NoAction]
            ELSE IF c.answer = NoVal /\ c.explanation # <<>> THEN [kind |-> "raise", action |-> NoAction]
            ELSE [kind |-> "append",
                  action |-> [type |-> "POLL", text |-> ql.q_lines, options |-> c.option_lines,
                              answer_index |-> ai, explanation |-> c.explanation]]

\* the blocks from idx on, with the actions collected so far
RECURSIVE ParseBlocks(_, _, _)
ParseBlocks(blocks, idx, actions) ==
    IF idx > Len(blocks) THEN [error |-> FALSE, actions |-> actions]
    ELSE LET o == BlockOutcome(blocks[idx])
         IN CASE o.kind = "raise" -> ParseErrorResult
              [] o.kind = "skip" -> ParseBlocks(blocks, idx + 1, actions)
              [] OTHER -> ParseBlocks(blocks, idx + 1, Append(actions, o.action))

\* parse_bulk: the actions, or error = TRUE where it raises ParseError
parse_bulk(text) ==
    IF split_blocks(text) = <<>> THEN ParseErrorResult
    ELSE ParseBlocks(split_blocks(text), 1, <<>>)

\* ------------------------- two invocations of post_sequence for one job_id
\* longest sequence under SpecTwice
MaxLenTwice == 1

InitTwice ==
    /\ \E s \in SeqsUpTo(ItemKinds, MaxLenTwice), o \in OwnerIds :
          arg = [t \in Threads |-> [chat_id |-> 1, owner_id |-> o, job_id |-> 1, sequence |-> s]]
    /\ run = [t \in Threads |-> StartRun]
    /\ obs = [t \in Threads |-> NoObs]
    /\ notified_jobs = {}
    /\ BotIdle("worker")

NextTwice == \E t \in Threads : PostSequence(t)

SpecTwice == InitTwice /\ [][NextTwice]_vars

\* ----------------------------------------------------------------- main.py
\* most jobs created in one run of a bot
MaxJobs == 2

SUDO_USERS == {7}
Users == {7, 8}
is_sudo(user_id) == user_id \in SUDO_USERS

\* TARGET_CHATS: name -> chat id
TARGET_CHATS == ("Class9" :> 1)

\* the texts the operator sends to main.py
Opt(label, word) == Line("OPT", label, "none", <<word>>)
QuizBlock ==
    <<Line("Q", 0, "none", <<"2+2?">>), Opt(1, "3"), Opt(2, "4"), Opt(3, "5"), Opt(4, "6"),
      Line("ANS", 2, "upper", <<>>)>>
TextScenarioA == QuizBlock \o <<Line("EXP", 0, "none", <<"basic", "arithmetic">>)>>
TextScenarioC == <<Line("DES", 0, "none", <<"hello">>)>> \o QuizBlock
TextMissingOption == <<QuizBlock[1], QuizBlock[2], QuizBlock[3], QuizBlock[4], QuizBlock[6]>>
TextExpBeforeAns ==
    <<QuizBlock[1], QuizBlock[2], QuizBlock[3], QuizBlock[4], QuizBlock[5],
      Line("EXP", 0, "none", <<"why">>), QuizBlock[6]>>
TextWarning == <<QuizBlock[1], Line("other", 0, "none", <<"(easy)">>)>> \o Tail(QuizBlock)
MainTexts == {TextScenarioA, TextScenarioC, TextMissingOption, TextExpBeforeAns, TextWarning}

\* res.get(key, default)
ResGet(res, key, default) == IF key \in DOMAIN res THEN res[key] ELSE default

\* if not res.get("ok"): the handler reports the errors and returns
\* a handler that rejects nothing
RejectedNever(res) == FALSE
Rejected(res) == ~ResGet(res, "ok", FALSE)

Put(f, k, v) == [x \in DOMAIN f \cup {k} |-> IF x = k THEN v ELSE f[x]]
Pop(f, k) == [x \in DOMAIN f \ {k} |-> f[x]]
Count(f, k) == IF k \in DOMAIN f THEN f[k] ELSE 0

\* formatted_quiz_received (the dispatcher hands it the texts that hold "Q:")
formatted_quiz_received(user, raw_text) ==
    /\ program = "main"
    /\ is_sudo(user)
    /\ LET res == validate_and_parse(raw_text)
       IN IF Rejected(res)
          THEN /\ event' = [text |-> raw_text, reply |-> "format errors", job |-> None]
               /\ UNCHANGED <<JOB_STASH, job_seq, created>>
          ELSE /\ job_seq < MaxJobs
               /\ job_seq' = job_seq + 1
               /\ JOB_STASH' = Put(JOB_STASH, job_seq', [owner_id |-> user, raw_text |-> raw_text,
                                                         sequence |-> ResGet(res, "sequence", <<>>),
                                                         questions |-> ResGet(res, "questions", <<>>)])
               /\ created' = Put(created, job_seq', raw_text)
               /\ event' = [text |-> raw_text, reply |-> "choose poll type", job |-> job_seq']
    /\ UNCHANGED <<arg, run, obs, notified_jobs, parse, bulk, send, program, closure, jobs, JOB_SELECTIONS, job_targets,
                   tasks, started>>

\* cb_publish_choice only edits the message: it changes no state

\* cb_select_chat: the thread it starts runs run_post
cb_select_chat(user, job_id, chatname, t) ==
    /\ program = "main"
    /\ job_id \in DOMAIN JOB_STASH
    /\ user = JOB_STASH[job_id].owner_id
    /\ chatname \in DOMAIN TARGET_CHATS
    /\ run[t].pc = "off"
    /\ \A u \in Threads : run[u].pc = "off" => t <= u
    /\ closure' = [closure EXCEPT ![t] = [kind |-> "run_post", job_id |-> job_id, chatname |-> chatname]]
    /\ arg' = [arg EXCEPT ![t] = [chat_id |-> TARGET_CHATS[chatname],
                                  owner_id |-> JOB_STASH[job_id].owner_id,
                                  job_id |-> None,
                                  sequence |-> ResGet(JOB_STASH[job_id], "sequence", <<>>)]]
    /\ run' = [run EXCEPT ![t] = StartRun]
    /\ started' = Put(started, job_id, Count(started, job_id) + 1)
    /\ UNCHANGED <<obs, notified_jobs, parse, bulk, send, program, JOB_STASH, jobs, JOB_SELECTIONS, job_targets, tasks,
                   job_seq, created, event>>

\* run_post after the worker returned: one message to the owner (success or
\* failure), then, in finally, JOB_STASH.pop(job_id)
run_post_finish(t) ==
    /\ program = "main"
    /\ closure[t].kind = "run_post"
    /\ run[t].pc = "returned"
    /\ run' = [run EXCEPT ![t].pc = "done"]
    /\ obs' = [obs EXCEPT ![t].ownerMsgs = @ + 1]
    /\ JOB_STASH' = Pop(JOB_STASH, closure[t].job_id)
    /\ UNCHANGED <<arg, notified_jobs, parse, bulk, send, program, closure, jobs, JOB_SELECTIONS, job_targets, tasks,
                   job_seq, started, created, event>>

\* unknown_text_fallback for a text that is a negative chat id: the latest
\* job of the owner is posted by a thread that calls the worker directly,
\* and the job leaves the stash at once
unknown_text_fallback(user, chat_id, t) ==
    /\ program = "main"
    /\ is_sudo(user)
    /\ \E j \in DOMAIN JOB_STASH : JOB_STASH[j].owner_id = user
    /\ run[t].pc = "off"
    /\ \A u \in Threads : run[u].pc = "off" => t <= u
    /\ LET job_id == CHOOSE j \in DOMAIN JOB_STASH :
                        /\ JOB_STASH[j].owner_id = user
                        /\ \A k \in DOMAIN JOB_STASH : JOB_STASH[k].owner_id = user => k <= j
       IN /\ closure' = [closure EXCEPT ![t] = [kind |-> "lambda", job_id |-> job_id, chatname |-> ""]]
          /\ arg' = [arg EXCEPT ![t] = [chat_id |-> chat_id, owner_id |-> user, job_id |-> None,
                                        sequence |-> ResGet(JOB_STASH[job_id], "sequence", <<>>)]]
          /\ run' = [run EXCEPT ![t] = StartRun]
          /\ started' = Put(started, job_id, Count(started, job_id) + 1)
          /\ JOB_STASH' = Pop(JOB_STASH, job_id)
    /\ UNCHANGED <<obs, notified_jobs, parse, bulk, send, program, jobs, JOB_SELECTIONS, job_targets, tasks, job_seq,
                   created, event>>

\* the steps of post_sequence a thread of main.py takes
WorkerThread(t) ==
    /\ program = "main"
    /\ \/ Dispatch(t)
       \/ FinalCheck(t)
       \/ FinalAdd(t)

MainNext ==
    \/ \E user \in Users, text \in MainTexts : formatted_quiz_received(user, text)
    \/ \E user \in Users, j \in 1..MaxJobs, c \in DOMAIN TARGET_CHATS, t \in Threads :
          cb_select_chat(user, j, c, t)
    \/ \E user \in Users, t \in Threads : unknown_text_fallback(user, 1, t)
    \/ \E t \in Threads : WorkerThread(t)
    \/ \E t \in Threads : run_post_finish(t)

\* ------------------------------------------------------------------ app.py
\* the bulk texts a user sends to app.py
BText(word) == BulkLine("text", <<word>>, NoVal)
BOpt(n, letter, word) == BulkLine("opt", <<word>>, [form |-> "letter", n |-> n, w |-> letter])
BAns(n, letter) == BulkLine("ans", <<>>, [form |-> "letter", n |-> n, w |-> letter])
BExp(word) == BulkLine("exp", <<word>>, NoVal)
BMsg == BulkLine("msg", <<>>, NoVal)
BQ == BulkLine("q", <<>>, NoVal)
BBlank == BulkLine("blank", <<>>, NoVal)

BulkExample1 ==
    <<BBlank, BMsg, BText("Maths"), BBlank, BQ, BText("2+2=?"), BOpt(1, "A", "3"), BOpt(2, "B", "4"),
      BOpt(3, "C", "5"), BAns(2, "B"), BExp("Explanation"), BBlank>>
BulkPlainPoll == <<BQ, BText("Pick"), BOpt(1, "A", "x"), BOpt(2, "B", "y")>>
BulkNoOptions == <<BQ, BText("Sample?"), BAns(1, "A")>>
BulkExpWithoutAnswer == <<BQ, BText("Sample?"), BOpt(1, "A", "1"), BOpt(2, "B", "2"), BExp("why")>>
BulkBadAnswer == <<BMsg, BText("Hi"), BQ, BText("Sample?"), BOpt(1, "A", "1"), BOpt(2, "B", "2"), BAns(3, "C")>>
MaxAppJobs == 1
AppTexts == {BulkExample1, BulkExpWithoutAnswer}

\* the chats get_chats_for_user returns
Chats == {1}

\* bulk_text_handler, for a text that holds "#Q" or "#MSG"
bulk_text_handler(user, raw) ==
    /\ program = "app"
    /\ LET res == parse_bulk(raw)
       IN IF res.error
          THEN /\ event' = [text |-> raw, reply |-> "parse error", job |-> None]
               /\ UNCHANGED <<jobs, JOB_SELECTIONS, job_seq, created>>
          ELSE /\ job_seq < MaxAppJobs
               /\ job_seq' = job_seq + 1
               /\ jobs' = Put(jobs, job_seq', [status |-> "pending", raw_text |-> raw,
                                               actions |-> res.actions, created_by |-> user])
               /\ JOB_SELECTIONS' = IF Chats = {} THEN JOB_SELECTIONS ELSE Put(JOB_SELECTIONS, job_seq', {})
               /\ created' = Put(created, job_seq', raw)
               /\ event' = [text |-> raw, reply |-> "parsed", job |-> job_seq']
    /\ UNCHANGED <<arg, run, obs, notified_jobs, parse, bulk, send, program, JOB_STASH, closure, job_targets, tasks, started>>

\* callback_router, data "toggle_chat:<job_id>:<chat_id>"
toggle_chat(job_id, chat_id) ==
    /\ program = "app"
    /\ LET sel == IF job_id \in DOMAIN JOB_SELECTIONS THEN JOB_SELECTIONS[job_id] ELSE {}
       IN JOB_SELECTIONS' = Put(JOB_SELECTIONS, job_id,
                                IF chat_id \in sel THEN sel \ {chat_id} ELSE sel \cup {chat_id})
    /\ UNCHANGED <<arg, run, obs, notified_jobs, parse, bulk, send, program, JOB_STASH, closure, jobs, job_targets, tasks,
                   job_seq, started, created, event>>

\* the chats of a selection in the order the for loop visits them
RowsFor(job_id, sel) == [i \in 1..Len(SortedLabels(sel)) |->
                            [job_id |-> job_id, chat_id |-> SortedLabels(sel)[i], status |-> "pending"]]

\* callback_router, data "confirm_send:<job_id>": the job is queued, one
\* JobTarget per selected chat is added, and a run_job task is created
confirm_send(user, job_id, k) ==
    /\ program = "app"
    /\ job_id \in DOMAIN JOB_SELECTIONS
    /\ JOB_SELECTIONS[job_id] # {}
    /\ job_id \in DOMAIN jobs
    /\ tasks[k].pc = "off"
    /\ \A u \in Tasks : tasks[u].pc = "off" => k <= u
    /\ jobs' = [jobs EXCEPT ![job_id].status = "queued"]
    /\ job_targets' = job_targets \o RowsFor(job_id, JOB_SELECTIONS[job_id])
    /\ tasks' = [tasks EXCEPT ![k] = [NoTask EXCEPT !.pc = "created", !.job_id = job_id]]
    /\ started' = Put(started, job_id, Count(started, job_id) + 1)
    /\ UNCHANGED <<arg, run, obs, notified_jobs, parse, bulk, send, program, JOB_STASH, closure, JOB_SELECTIONS, job_seq,
                   created, event>>

\* callback_router, data "cancel_job:<job_id>"
cancel_job(job_id) ==
    /\ program = "app"
    /\ job_id \in DOMAIN jobs
    /\ jobs' = [jobs EXCEPT ![job_id].status = "cancelled"]
    /\ UNCHANGED <<arg, run, obs, notified_jobs, parse, bulk, send, program, JOB_STASH, closure, JOB_SELECTIONS,
                   job_targets, tasks, job_seq, started, created, event>>

\* sess.query(JobTarget).filter_by(job_id=job_id).all(): the rows' positions
RECURSIVE TargetRows(_, _, _)
TargetRows(rows, job_id, i) ==
    IF i > Len(rows) THEN <<>>
    ELSE (IF rows[i].job_id = job_id THEN <<i>> ELSE <<>>) \o TargetRows(rows, job_id, i + 1)

SetStatus(rows, i, status) == [rows EXCEPT ![i].status = status]

RECURSIVE SetAll(_, _, _)
SetAll(rows, which, status) ==
    IF which = <<>> THEN rows ELSE SetAll(SetStatus(rows, Head(which), status), Tail(which), status)

\* run_job from its start to its first await: the job is set running; with
\* no action to send every target completes at once and the job completes
run_job_start(k) ==
    /\ program = "app"
    /\ tasks[k].pc = "created"
    /\ LET j == tasks[k].job_id
           rows == TargetRows(job_targets, j, 1)
           actions == jobs[j].actions
       IN IF rows = <<>> \/ actions = <<>>
          THEN /\ jobs' = [jobs EXCEPT ![j].status = "completed"]
               /\ job_targets' = SetAll(job_targets, rows, "completed")
               /\ tasks' = [tasks EXCEPT ![k].pc = "done", ![k].ownerMsgs = 1]
          ELSE /\ jobs' = [jobs EXCEPT ![j].status = "running"]
               /\ job_targets' = SetStatus(job_targets, rows[1], "running")
               /\ tasks' = [tasks EXCEPT ![k].pc = "send", ![k].rows = rows, ![k].actions = actions,
                                         ![k].ti = 1, ![k].ai = 1]
    /\ UNCHANGED <<arg, run, obs, notified_jobs, parse, bulk, send, program, JOB_STASH, closure, JOB_SELECTIONS, job_seq,
                   started, created, event>>

\* send_actions_to_chat returned with failed > 0: the target and the job
\* are set failed and the trigger user is told
SendFailed(k, task) ==
    /\ jobs' = [jobs EXCEPT ![task.job_id].status = "failed"]
    /\ job_targets' = SetStatus(job_targets, task.rows[task.ti], "failed")
    /\ tasks' = [tasks EXCEPT ![k] = [task EXCEPT !.pc = "done", !.ownerMsgs = @ + 1]]

\* send_actions_to_chat returned with failed = 0: the target is completed;
\* the next target is started, or the job is completed and the user told
SendCompleted(k, task) ==
    IF task.ti < Len(task.rows)
    THEN /\ job_targets' = SetStatus(SetStatus(job_targets, task.rows[task.ti], "completed"),
                                     task.rows[task.ti + 1], "running")
         /\ tasks' = [tasks EXCEPT ![k] = [task EXCEPT !.ti = @ + 1, !.ai = 1, !.attempts = 0, !.sent = 0,
                                                       !.failed = 0, !.last_err = FALSE,
                                                       !.overall_sent = @ + task.sent]]
         /\ UNCHANGED jobs
    ELSE /\ job_targets' = SetStatus(job_targets, task.rows[task.ti], "completed")
         /\ jobs' = [jobs EXCEPT ![task.job_id].status = "completed"]
         /\ tasks' = [tasks EXCEPT ![k] = [task EXCEPT !.pc = "done", !.ownerMsgs = @ + 1,
                                                       !.overall_sent = @ + task.sent]]

\* attempts < 3
SendAttempts == 3

\* send_actions_to_chat inside run_job: one pass of the while loop for the
\* current action (the gateway call and its outcome), up to the next gateway
\* call of the task
send_step(k, accepted) ==
    /\ program = "app"
    /\ tasks[k].pc = "send"
    /\ LET task == tasks[k]
           action == task.actions[task.ai]
       IN IF action.type \notin {"MSG", "POLL"}
          THEN \* break with success = False; errors.append reads last_err
               IF task.last_err
               THEN SendFailed(k, [task EXCEPT !.failed = @ + 1])
               ELSE /\ tasks' = [tasks EXCEPT ![k].pc = "crashed"]
                    /\ UNCHANGED <<jobs, job_targets>>
          ELSE IF accepted
          THEN LET t1 == [task EXCEPT !.sent = @ + 1]
               IN IF task.ai < Len(task.actions)
                  THEN /\ tasks' = [tasks EXCEPT ![k] = [t1 EXCEPT !.ai = @ + 1, !.attempts = 0]]
                       /\ UNCHANGED <<jobs, job_targets>>
                  ELSE SendCompleted(k, t1)
          ELSE LET t1 == [task EXCEPT !.attempts = @ + 1, !.last_err = TRUE]
               IN IF t1.attempts < SendAttempts
                  THEN /\ tasks' = [tasks EXCEPT ![k] = t1]
                       /\ UNCHANGED <<jobs, job_targets>>
                  ELSE SendFailed(k, [t1 EXCEPT !.failed = @ + 1])
    /\ UNCHANGED <<arg, run, obs, notified_jobs, parse, bulk, send, program, JOB_STASH, closure, JOB_SELECTIONS, job_seq,
                   started, created, event>>

AppNext ==
    \/ \E text \in AppTexts : bulk_text_handler(7, text)
    \/ \E j \in 1..MaxAppJobs, c \in Chats : toggle_chat(j, c)
    \/ \E j \in 1..MaxAppJobs, k \in Tasks : confirm_send(7, j, k)
    \/ \E j \in 1..MaxAppJobs : cancel_job(j)
    \/ \E k \in Tasks : run_job_start(k)
    \/ \E k \in Tasks, accepted \in BOOLEAN : send_step(k, accepted)

\* ------------------------------------------------- the bot, main.py or app.py
InitBot ==
    /\ arg = [t \in Threads |-> NoArg]
    /\ run = [t \in Threads |-> OffRun]
    /\ obs = [t \in Threads |-> NoObs]
    /\ notified_jobs = {}
    /\ \E p \in {"main", "app"} : BotIdle(p)

NextBot == MainNext \/ AppNext

SpecBot == InitBot /\ [][NextBot]_vars

\* ------------------------- post_sequence on a sequence long enough to abort
\* after a delivered question
\* the length of the sequences under SpecAbort
MaxLenAbort == 4

\* run_post: "if success:" on the value post_sequence returned
SuccessReported(success) == success # 0

InitAbort ==
    /\ \E s \in [1..MaxLenAbort -> ItemKinds], o \in OwnerIds :
          arg = [t \in Threads |->
                   IF t = 1 THEN [chat_id |-> 1, owner_id |-> o, job_id |-> None, sequence |-> s]
                   ELSE NoArg]
    /\ run = [t \in Threads |-> IF t = 1 THEN StartRun ELSE OffRun]
    /\ obs = [t \in Threads |-> NoObs]
    /\ notified_jobs = {}
    /\ BotIdle("worker")

NextAbort == PostSequence(1)

SpecAbort == InitAbort /\ [][NextAbort]_vars

\* ------------------------------- validate_and_parse, one loop pass per step
\* the lines a text can be made of
LBlank == Line("blank", 0, "none", <<>>)
LEg == Line("eg", 0, "none", <<"Eg(x)">>)
LOther == Line("other", 0, "none", <<"note">>)
LDes == Line("DES", 0, "none", <<"hello">>)
LQ == Line("Q", 0, "none", <<"2+2?">>)
LExp == Line("EXP", 0, "none", <<"why">>)
LAns(label) == Line("ANS", label, "upper", <<>>)
LAnsLower == Line("ANS", 2, "lower", <<>>)
LAnsDigit == Line("ANS", 2, "digit", <<>>)
LAnsMulti == Line("ANS", 0, "multi", <<>>)
LowerCaseLines ==
    {Line("des", 0, "none", <<"hello">>), Line("q", 0, "none", <<"2+2?">>), Line("opt", 1, "none", <<"3">>),
     Line("ans", 2, "lower", <<>>), Line("exp", 0, "none", <<"why">>)}

\* the lines of the short texts, and the lines put into a well-formed block
ShortKinds ==
    {LBlank, LEg, LOther, LDes, LQ, Opt(1, "3"), Opt(2, "4"), LAns(2), LAnsDigit, LExp,
     Line("q", 0, "none", <<"2+2?">>)}
AllKinds ==
    ShortKinds \cup LowerCaseLines
        \cup {Opt(3, "5"), Opt(4, "6"), Opt(5, "7"), Opt(1, "x"), LAns(1), LAns(3), LAns(4), LAns(5),
              LAnsLower, LAnsMulti}

\* longest text of the texts made of every combination of lines
MaxLines == 3

ShortTexts == SeqsUpTo(ShortKinds, MaxLines)

\* a well-formed block with one line replaced, one line added, one line left out
Replaced(text) == {[text EXCEPT ![p] = k] : p \in 1..Len(text), k \in AllKinds}
Inserted(text) ==
    {SubSeq(text, 1, p) \o <<k>> \o SubSeq(text, p + 1, Len(text)) : p \in 0..Len(text), k \in AllKinds}
Removed(text) == {SubSeq(text, 1, p - 1) \o SubSeq(text, p + 1, Len(text)) : p \in 1..Len(text)}
NearTexts == Replaced(TextScenarioA) \cup Inserted(TextScenarioA) \cup Removed(TextScenarioA)

\* a block of NearTexts followed by a well-formed block
TwoBlockTexts == {text \o QuizBlock : text \in Replaced(TextScenarioA) \cup Removed(TextScenarioA)}

\* the well-formed blocks: Q, the options A to D in any order, ANS naming one
\* of them, EXP
WellFormedTexts ==
    {<<LQ>> \o [p \in 1..4 |-> Opt(f[p], QuizBlock[f[p] + 1].text[1])] \o <<LAns(a), TextScenarioA[7]>> :
        f \in {g \in [1..4 -> 1..4] : \A x, y \in 1..4 : g[x] = g[y] => x = y}, a \in 1..4}

\* a well-formed block with a line that carries no tag after one of its options
WrappedTexts ==
    {SubSeq(text, 1, p) \o <<LOther>> \o SubSeq(text, p + 1, Len(text)) : text \in WellFormedTexts, p \in 2..5}

ParseTexts == ShortTexts \cup NearTexts \cup TwoBlockTexts \cup MainTexts \cup WellFormedTexts \cup WrappedTexts

\* a call that keeps the result of the call before it
StartResultKept(prev) == prev

\* result = {"ok": True, "errors": [], ...}: a new record in every call,
\* whatever the call before (prev) returned
StartResult(prev) == EmptyResult

\* an index that stays on its line
SameLine(i) == i

\* i += 1
NextLine(i) == i + 1

\* the call validate_and_parse(raw_text) up to the outer loop's first test;
\* todo are the texts of the calls made after this one, first the result the
\* first call returned, prev_raw the text of the call before this one
StartCall(raw_text, todo, prev) ==
    [pc |-> "outer", raw |-> raw_text, lines |-> strip_eg_lines(raw_text), i |-> 1, seen_q |-> FALSE,
     in_block |-> FALSE, q |-> [index |-> 0], result |-> StartResult(prev.result), todo |-> todo,
     first |-> IF prev.calls = 1 THEN prev.result ELSE prev.first, calls |-> prev.calls + 1,
     prev_raw |-> prev.raw]

\* what the steps of the parser leave alone
nonparse ==
    <<arg, run, obs, notified_jobs, program, JOB_STASH, closure, jobs, JOB_SELECTIONS, job_targets,
      tasks, job_seq, started, created, event, bulk, send>>

\* one pass of the outer while loop: its test, and for a line that is no
\* "Q:" line the whole pass; for a "Q:" line the pass up to the inner loop
OuterStep ==
    /\ parse.pc = "outer"
    /\ IF parse.i > Len(parse.lines)
       THEN parse' = [parse EXCEPT !.pc = "done", !.result = NoQuestionsCheck(@)]
       ELSE LET ln == parse.lines[parse.i]
            IN IF ln.tag # "blank" /\ ~des_re(ln) /\ q_re(ln)
               THEN parse' = [parse EXCEPT !.pc = "inner", !.seen_q = TRUE, !.in_block = TRUE,
                                           !.i = NextLine(@),
                                           !.q = NewQuestion(Len(parse.result.questions) + 1, ln.text)]
               ELSE parse' = [parse EXCEPT !.i = NextLine(@),
                                           !.result = ParseLines(SubSeq(parse.lines, 1, parse.i), parse.i,
                                                                 parse.seen_q, parse.result)]
    /\ UNCHANGED nonparse

\* one pass of the inner while loop: its test and break, or the handling of
\* one line of the block; on leaving, the checks after the block and
\* result["questions"].append(q_obj)
InnerStep ==
    /\ parse.pc = "inner"
    /\ IF parse.i > Len(parse.lines) \/ q_re(parse.lines[parse.i])
       THEN LET q == CloseBlock(parse.q)
            IN parse' = [parse EXCEPT !.pc = "outer", !.in_block = FALSE, !.q = [index |-> 0],
                                      !.result = [@ EXCEPT !.ok = @ /\ Len(q.errors) = Len(parse.q.errors),
                                                           !.questions = Append(@, q)]]
       ELSE LET b == ParseBlock(SubSeq(parse.lines, 1, parse.i), parse.i, parse.q, parse.result.ok)
            IN parse' = [parse EXCEPT !.i = NextLine(@), !.q = b.q, !.result.ok = b.ok]
    /\ UNCHANGED nonparse

InitParse ==
    /\ arg = [t \in Threads |-> NoArg]
    /\ run = [t \in Threads |-> OffRun]
    /\ obs = [t \in Threads |-> NoObs]
    /\ notified_jobs = {}
    /\ NoBot("validator")
    /\ bulk = NoBulk
    /\ send = NoSend
    /\ \E text \in ParseTexts : parse = StartCall(text, <<>>, NoParse)

NextParse == OuterStep \/ InnerStep

SpecParse == InitParse /\ [][NextParse]_vars

\* ----------------------------------- validate_and_parse called three times
\* longest text of the short texts parsed under SpecParseTwice
MaxLinesTwice == 1

TwiceTexts == MainTexts \cup SeqsUpTo(ShortKinds, MaxLinesTwice)

\* the next call of validate_and_parse, made after the running one returned
NextCall ==
    /\ parse.pc = "done"
    /\ parse.todo # <<>>
    /\ parse' = StartCall(Head(parse.todo), Tail(parse.todo), parse)
    /\ UNCHANGED nonparse

\* a text is parsed, then another text, then the first text again
InitParseTwice ==
    /\ arg = [t \in Threads |-> NoArg]
    /\ run = [t \in Threads |-> OffRun]
    /\ obs = [t \in Threads |-> NoObs]
    /\ notified_jobs = {}
    /\ NoBot("validator")
    /\ bulk = NoBulk
    /\ send = NoSend
    /\ \E text \in TwiceTexts, other \in TwiceTexts : parse = StartCall(text, <<other, text>>, NoParse)

NextParseTwice == OuterStep \/ InnerStep \/ NextCall

SpecParseTwice == InitParseTwice /\ [][NextParseTwice]_vars

\* ------------------------------------------ parse_bulk, one block per step
\* the lines of the bulk texts
BAnsNum(n) ==
    BulkLine("ans", <<>>, [form |-> "num", n |-> n, w |-> <<"0", "1", "2", "3", "4", "5">>[n + 1]])
\* "#EXP: " followed by white space only
BExpBlank == BulkLine("exp", <<>>, NoVal)

\* the blocks the bulk texts are made of
BulkBlocks ==
    {<<BMsg, BText("Maths")>>, <<BMsg, BBlank, BText("Done")>>, <<BMsg, BBlank>>, <<BMsg>>,
     <<BQ, BText("2+2=?"), BOpt(1, "A", "3"), BOpt(2, "B", "4"), BOpt(3, "C", "5"), BAns(2, "B"),
       BExp("Explanation")>>,
     BulkPlainPoll, BulkExpWithoutAnswer,
     <<BQ, BText("Sample?"), BOpt(1, "A", "1")>>,
     <<BQ, BText("Sample?")>>,
     <<BQ, BText("Sample?"), BOpt(1, "A", "1"), BExp("why"), BOpt(2, "B", "2")>>,
     <<BQ, BText("Sample?"), BOpt(1, "A", "1"), BOpt(2, "B", "2"), BExp("why"), BExpBlank>>,
     <<BQ, BOpt(1, "A", "1"), BOpt(2, "B", "2")>>,
     <<BQ, BText("Sample?"), BOpt(1, "A", "1"), BOpt(2, "B", "2"), BAns(3, "C")>>}

\* most blocks of a bulk text
MaxBlocks == 2

RECURSIVE BlockTexts(_)
BlockTexts(n) ==
    IF n = 0 THEN {<<>>}
    ELSE BlockTexts(n - 1) \cup {text \o b : text \in BlockTexts(n - 1), b \in BulkBlocks}

\* a Q block of two or three options with every kind of #ANS value
AnswerTexts ==
    {<<BQ, BText("Sample?")>> \o SubSeq(<<BOpt(1, "A", "3"), BOpt(2, "B", "4"), BOpt(3, "C", "5")>>, 1, n) \o <<a>> :
        n \in 2..3,
        a \in {BAns(1, "A"), BAns(2, "B"), BAns(3, "C"), BAns(4, "D")} \cup {BAnsNum(k) : k \in 0..5}}

\* a text with an empty #MSG block between blocks that give actions
BulkDroppedMsg ==
    <<BMsg, BText("Maths"), BMsg, BBlank>> \o BulkPlainPoll \o <<BMsg, BBlank, BText("Done")>>

\* the texts given to parse_bulk; some start with lines under no block
BulkTexts ==
    BlockTexts(MaxBlocks) \cup {<<BBlank, BText("loose")>> \o text : text \in BlockTexts(1)}
        \cup AnswerTexts \cup {BulkExample1, BulkNoOptions, BulkBadAnswer, BulkDroppedMsg}

\* what the steps of parse_bulk leave alone
nonbulk ==
    <<arg, run, obs, notified_jobs, program, JOB_STASH, closure, jobs, JOB_SELECTIONS, job_targets,
      tasks, job_seq, started, created, event, parse, send>>

\* blocks = split_blocks(text); if not blocks: raise ParseError
ParseBulkCall ==
    /\ bulk.pc = "called"
    /\ LET blocks == split_blocks(bulk.text)
       IN IF blocks = <<>>
          THEN bulk' = [bulk EXCEPT !.pc = "raised", !.result = ParseErrorResult]
          ELSE bulk' = [bulk EXCEPT !.pc = "loop", !.blocks = blocks, !.idx = 1]
    /\ UNCHANGED nonbulk

\* one pass of for idx, (btype, lines) in enumerate(blocks, start=1)
ParseBulkBlock ==
    /\ bulk.pc = "loop"
    /\ bulk.idx <= Len(bulk.blocks)
    /\ LET o == BlockOutcome(bulk.blocks[bulk.idx])
       IN CASE o.kind = "raise" -> bulk' = [bulk EXCEPT !.pc = "raised", !.result = ParseErrorResult]
            [] o.kind = "skip" -> bulk' = [bulk EXCEPT !.idx = @ + 1]
            [] OTHER -> bulk' = [bulk EXCEPT !.idx = @ + 1, !.actions = Append(@, o.action)]
    /\ UNCHANGED nonbulk

\* return actions
ParseBulkReturn ==
    /\ bulk.pc = "loop"
    /\ bulk.idx > Len(bulk.blocks)
    /\ bulk' = [bulk EXCEPT !.pc = "returned", !.result = [error |-> FALSE, actions |-> bulk.actions]]
    /\ UNCHANGED nonbulk

InitBulk ==
    /\ arg = [t \in Threads |-> NoArg]
    /\ run = [t \in Threads |-> OffRun]
    /\ obs = [t \in Threads |-> NoObs]
    /\ notified_jobs = {}
    /\ NoBot("parser")
    /\ parse = NoParse
    /\ send = NoSend
    /\ \E text \in BulkTexts : bulk = [NoBulk EXCEPT !.pc = "called", !.text = text]

NextBulk == ParseBulkCall \/ ParseBulkBlock \/ ParseBulkReturn

SpecBulk == InitBulk /\ [][NextBulk]_vars

\* ------------------------------- post_sequence over questions of any labels
\* the invocation post_sequence(bot, 1, s, owner_id = o) for some s of seqs
InitOver(seqs) ==
    /\ \E s \in seqs, o \in OwnerIds :
          arg = [t \in Threads |->
                   IF t = 1 THEN [chat_id |-> 1, owner_id |-> o, job_id |-> None, sequence |-> s]
                   ELSE NoArg]
    /\ run = [t \in Threads |-> IF t = 1 THEN StartRun ELSE OffRun]
    /\ obs = [t \in Threads |-> NoObs]
    /\ notified_jobs = {}
    /\ BotIdle("worker")

\* the last letter used as an option label
MaxLabel == 4

\* questions whose options are declared under any set of labels, the option
\* under label l having its own text, with any ans (also None and a letter
\* past the last label)
LabelText(l) == <<"3", "4", "5", "6", "7", "8">>[l]
OptionItems ==
    {[type |-> "question", options |-> [l \in L |-> LabelText(l)], ans |-> a] :
        L \in SUBSET (1..MaxLabel), a \in 0..(MaxLabel + 1)}

OptionSequences ==
    {<<i>> : i \in OptionItems \cup ItemKinds} \cup {<<DesItem, i>> : i \in OptionItems}

InitOptions == InitOver(OptionSequences)
NextOptions == PostSequence(1)
SpecOptions == InitOptions /\ [][NextOptions]_vars

\* --------------------------------------- post_sequence over long sequences
\* sequences of LongSequence and of LongSequence + 1 items: announcements
\* followed by one item of any kind
Announcements(k) == [i \in 1..k |-> DesItem]
PaceSequences ==
    {Announcements(k) \o <<i>> : k \in {LongSequence - 1, LongSequence}, i \in ItemKinds}

InitPace == InitOver(PaceSequences)
NextPace == PostSequence(1)
SpecPace == InitPace /\ [][NextPace]_vars

\* ------------------------------ post_sequence against a restricted gateway
\* post_sequence where send_poll is answered with one of kinds only
PostSequenceOf(t, kinds) ==
    \/ Dispatch(t)
    \/ \E accepted \in BOOLEAN : SendDes(t, accepted)
    \/ SkipInvalid(t)
    \/ \E r \in {x \in PollResponses : x.kind \in kinds} : SendPoll(t, r)
    \/ Exhausted(t)
    \/ Unhandled(t)
    \/ FinalCheck(t)
    \/ FinalAdd(t)

\* a gateway whose only failure is a permanent TelegramError (bad request)
NextPermanent == PostSequenceOf(1, {"ok", "permanent"})
SpecPermanent == Init /\ [][NextPermanent]_vars

\* a gateway whose failures are RetryAfter and transient TelegramErrors
NextTransient == PostSequenceOf(1, {"ok", "ra", "transient"})
SpecTransient == Init /\ [][NextTransient]_vars

\* -------------------- two jobs posted to one chat without a job_id (main.py)
\* run_post calls the worker without job_id: two jobs of one owner for one
\* chat, each with its own sequence, each on its own thread
InitTwoJobs ==
    /\ \E s1, s2 \in SeqsUpTo(ItemKinds, MaxLenTwice), o \in OwnerIds :
          arg = [t \in Threads |-> [chat_id |-> 1, owner_id |-> o, job_id |-> None,
                                    sequence |-> IF t = 1 THEN s1 ELSE s2]]
    /\ run = [t \in Threads |-> StartRun]
    /\ obs = [t \in Threads |-> NoObs]
    /\ notified_jobs = {}
    /\ BotIdle("worker")

SpecTwoJobs == InitTwoJobs /\ [][NextTwice]_vars

\* ------------------------------------------- sender.send_actions_to_chat
\* the actions a call can be given: the two types parse_bulk produces and a
\* type the function does not know
MsgAction == [type |-> "MSG"]
PollAction == [type |-> "POLL"]
OtherAction == [type |-> "NOTE"]
ActionTypes == {MsgAction, PollAction, OtherAction}

\* longest list of actions under SpecSend
MaxActions == 3

\* a function that goes on with the next action after a failed one
AfterFailureGoOn(idx) == "loop"

\* return {"sent": sent, "failed": failed, "errors": errors}
AfterFailure(idx) == "returned"

nonsend ==
    <<arg, run, obs, notified_jobs, program, JOB_STASH, closure, jobs, JOB_SELECTIONS, job_targets,
      tasks, job_seq, started, created, event, parse, bulk>>

\* for idx, action in enumerate(actions, start=1): the loop head (after the
\* throttle sleep of the action before), and the return after the loop
SendNext ==
    /\ send.pc = "loop"
    /\ IF send.idx >= Len(send.actions)
       THEN send' = [send EXCEPT !.pc = "returned"]
       ELSE send' = [send EXCEPT !.pc = "try", !.idx = @ + 1, !.attempts = 0]
    /\ UNCHANGED nonsend

\* one pass of the while loop for an action of type MSG or POLL: the gateway
\* call and its outcome; after the third failure the code after the loop
SendTry(accepted) ==
    /\ send.pc = "try"
    /\ send.actions[send.idx].type \in {"MSG", "POLL"}
    /\ LET called == [send EXCEPT !.calls[send.idx] = @ + 1]
       IN IF accepted
          THEN send' = [called EXCEPT !.pc = "loop", !.sent = @ + 1]
          ELSE IF send.attempts + 1 < SendAttempts
          THEN send' = [called EXCEPT !.attempts = @ + 1, !.last_err = TRUE]
          ELSE send' = [called EXCEPT !.attempts = @ + 1, !.last_err = TRUE, !.failed = @ + 1,
                                      !.errors = Append(@, send.idx), !.pc = AfterFailure(send.idx)]
    /\ UNCHANGED nonsend

\* an action of another type: break with success still False, then the code
\* after the loop; errors.append(...) reads last_err, a local that is bound
\* only once a gateway call of this invocation has failed
SendUnknown ==
    /\ send.pc = "try"
    /\ send.actions[send.idx].type \notin {"MSG", "POLL"}
    /\ IF send.last_err
       THEN send' = [send EXCEPT !.failed = @ + 1, !.errors = Append(@, send.idx),
                                 !.pc = AfterFailure(send.idx)]
       ELSE send' = [send EXCEPT !.pc = "raised"]
    /\ UNCHANGED nonsend

InitSend ==
    /\ arg = [t \in Threads |-> NoArg]
    /\ run = [t \in Threads |-> OffRun]
    /\ obs = [t \in Threads |-> NoObs]
    /\ notified_jobs = {}
    /\ NoBot("sender")
    /\ parse = NoParse
    /\ bulk = NoBulk
    /\ \E actions \in SeqsUpTo(ActionTypes, MaxActions) :
          send = [NoSend EXCEPT !.pc = "loop", !.actions = actions,
                                !.calls = [i \in 1..Len(actions) |-> 0]]

NextSend == SendNext \/ (\E accepted \in BOOLEAN : SendTry(accepted)) \/ SendUnknown

SpecSend == InitSend /\ [][NextSend]_vars

\* ------------------------------------------------------------------ claims

\* C1: the gateway calls of one post_sequence run are made in sequence
\* order: every call is for the largest item index called so far, so no call
\* for an earlier item follows a call for a later one.
C1_CallsInSequenceOrder == \A t \in Threads : obs[t].lastCallIdx = obs[t].maxCallIdx

C1_Witness ==
    /\ obs[1].lastCallIdx = 3
    /\ run[1].sent_count = 1
    /\ run[1].consecutive_failures = 1
    /\ obs[1].ras > 0 /\ obs[1].errs > 0

C3_RetryAfterIsFree ==
    \A t \in Threads : (obs[t].ras >= 1 /\ obs[t].errs = 0) => run[t].pc # "exhausted"

\* C4: after the gateway demanded a wait of N seconds, the run has slept at
\* least N seconds since that answer in every state from which it makes its
\* next gateway call.
C4_WaitHonoured == \A t \in Threads : obs[t].required > 0 => obs[t].waited >= obs[t].required

C4_Witness ==
    /\ run[1].pc = "poll"
    /\ run[1].attempt >= 1
    /\ obs[1].required = MaxWait
    /\ obs[1].waited >= MaxWait

\* C5: a delivery run that run_post has finished has sent exactly one
\* message to the owner, counting the failure notices, the abort notice and
\* the final confirmation of post_sequence and the message of run_post.
C5_ExactlyOneOwnerMessage ==
    \A t \in Threads :
        (closure[t].kind = "run_post" /\ run[t].pc = "done") => obs[t].ownerMsgs = 1

\* C6: of two invocations of post_sequence with the same job_id, at most one
\* finds the key not yet notified.
C6_AtMostOneUnnotified ==
    \A t1, t2 \in Threads :
        (t1 # t2 /\ arg[t1].job_id # None /\ arg[t1].job_id = arg[t2].job_id)
            => ~(obs[t1].unnotified /\ obs[t2].unnotified)

\* C7: no job has more than one delivery run started for it, by main.py's
\* selectchat callback or by app.py's confirm_send.
C7_AtMostOneRun == \A j \in DOMAIN started : started[j] <= 1

TerminalStatuses == {"completed", "failed", "aborted", "cancelled"}

\* C8: no step changes the status of a job whose status is completed,
\* failed, aborted or cancelled.
C8_TerminalStatusKept ==
    [][\A j \in DOMAIN jobs :
          jobs[j].status \in TerminalStatuses => jobs'[j].status = jobs[j].status]_vars

\* C9: a job whose status is running is never cancelled: no step takes its
\* status from running to cancelled.
C9_RunningNotCancelled ==
    [][\A j \in DOMAIN jobs :
          jobs[j].status = "running" => jobs'[j].status # "cancelled"]_vars

\* the parser reports a blocking error for the text
Blocked(text) == IF program = "main" THEN ~validate_and_parse(text).ok ELSE parse_bulk(text).error

\* C10: no job exists for a text the parser rejects: every job id handed
\* out belongs to an accepted text, every stashed, stored, selected, queued
\* or delivered job is such a job, and the handling of a rejected text
\* ends with the diagnostics report and no job.
C10_NoJobForRejectedInput ==
    /\ DOMAIN created = 1..job_seq
    /\ \A j \in DOMAIN created : ~Blocked(created[j])
    /\ DOMAIN JOB_STASH \subseteq DOMAIN created
    /\ DOMAIN jobs \subseteq DOMAIN created
    /\ DOMAIN started \subseteq DOMAIN created
    /\ \A j \in DOMAIN JOB_STASH : JOB_STASH[j].raw_text = created[j]
    /\ \A j \in DOMAIN jobs : jobs[j].raw_text = created[j]
    /\ \A i \in DOMAIN job_targets : job_targets[i].job_id \in DOMAIN created
    /\ \A t \in Threads : closure[t] # NoClosure => closure[t].job_id \in DOMAIN created
    /\ \A k \in Tasks : tasks[k].pc # "off" => tasks[k].job_id \in DOMAIN created
    /\ (event # NoEvent /\ Blocked(event.text)) =>
          /\ event.job = None
          /\ event.reply \in {"format errors", "parse error"}

C10_Witness ==
    /\ event # NoEvent
    /\ Blocked(event.text)
    /\ event.reply \in {"format errors", "parse error"}
    /\ job_seq >= 1
    /\ \E j \in DOMAIN started : started[j] >= 1

\* the items of a sequence that are questions
RECURSIVE CountQuestions(_)
CountQuestions(sequence) ==
    IF sequence = <<>> THEN 0
    ELSE (IF Head(sequence).type = "question" THEN 1 ELSE 0) + CountQuestions(Tail(sequence))

\* C11: a delivery run started for a job runs over the job's parsed
\* sequence: the sequence handed to post_sequence holds one question item
\* for every question parsed from the job's text.
C11_RunOverParsedSequence ==
    \A t \in Threads :
        closure[t] # NoClosure =>
            CountQuestions(arg[t].sequence)
                = Len(validate_and_parse(created[closure[t].job_id]).questions)

\* C12: a run that the circuit breaker aborted is not reported as a success
\* by its caller, also when questions were delivered before the abort.
C12_NoSuccessAfterAbort ==
    \A t \in Threads :
        (run[t].pc = "returned" /\ obs[t].abortIdx # 0) => ~SuccessReported(run[t].sent_count)

\* C13: validate_and_parse terminates with a result record: every pass of
\* the outer or of the inner loop moves the index on by one line, never past
\* the end of the text, or leaves its loop at the same line (the inner loop
\* for the outer one, the outer loop for the return), and what is returned
\* is a record with a Boolean ok.
C13_EveryPassAdvances ==
    [][parse.pc \in {"outer", "inner"} =>
          /\ \/ /\ parse'.i = parse.i + 1
                /\ parse'.i <= Len(parse.lines) + 1
                /\ parse'.pc \in {"outer", "inner"}
             \/ /\ parse'.i = parse.i
                /\ <<parse.pc, parse'.pc>> \in {<<"inner", "outer">>, <<"outer", "done">>}
          /\ parse'.pc = "done" =>
                /\ parse'.i = Len(parse.lines) + 1
                /\ parse'.result.ok \in BOOLEAN
                /\ DOMAIN parse'.result = {"ok", "errors", "warnings", "des", "questions"}]_vars

C13_Witness ==
    /\ parse.pc = "done"
    /\ parse.raw # parse.lines
    /\ Len(parse.result.questions) = 2
    /\ ~parse.result.ok

\* the positions of the "Q:" lines of a text, in order
QLines(lines) == SortedLabels({i \in 1..Len(lines) : lines[i].tag = "Q"})

\* the lines of the block that starts at the k-th "Q:" line
BlockLines(lines, k) ==
    SubSeq(lines, QLines(lines)[k],
           IF k < Len(QLines(lines)) THEN QLines(lines)[k + 1] - 1 ELSE Len(lines))

\* a question entry without its number and without line numbers
Diagnostics(q) ==
    [errors |-> [e \in DOMAIN q.errors |-> <<q.errors[e][1], IF Len(q.errors[e]) = 3 THEN q.errors[e][3] ELSE 0>>],
     warnings |-> [w \in DOMAIN q.warnings |-> q.warnings[w][1]],
     raw_question |-> q.raw_question, options |-> q.options, ans |-> q.ans, exp |-> q.exp]

\* C14: parsing goes on to the end of the text whatever is malformed: the
\* result has one question entry per "Q:" line left after the "Eg(" lines
\* were removed, numbered in order, and the entry of every block is the one
\* the block gets when parsed on its own, with all its diagnostics.
C14_EveryBlockParsed ==
    parse.pc = "done" =>
        /\ Len(parse.result.questions) = Len(QLines(strip_eg_lines(parse.raw)))
        /\ \A k \in 1..Len(parse.result.questions) :
              /\ parse.result.questions[k].index = k
              /\ Diagnostics(parse.result.questions[k])
                    = Diagnostics(validate_and_parse(BlockLines(strip_eg_lines(parse.raw), k)).questions[1])

C14_Witness ==
    /\ parse.pc = "done"
    /\ Len(parse.result.questions) = 2
    /\ Len(parse.result.questions[1].errors) >= 2
    /\ parse.result.questions[2].errors = <<>>
    /\ \E i \in 1..Len(parse.lines) : parse.lines[i].form = "multi"

\* C15: the ok flag of the result is true exactly when no error was
\* recorded, neither in the result's errors nor in the errors of any
\* question entry; warnings do not count.
C15_OkIffNoError ==
    parse.pc = "done" =>
        (parse.result.ok <=>
            /\ parse.result.errors = <<>>
            /\ \A k \in 1..Len(parse.result.questions) : parse.result.questions[k].errors = <<>>)

C15_Witness ==
    /\ parse.pc = "done"
    /\ parse.result.ok
    /\ parse.result.warnings # <<>>
    /\ parse.result.questions # <<>>

\* C16: in a result with ok = true every question has the options A, B, C
\* and D, and its ans is the label of one of the options of that question.
C16_OkQuestionsComplete ==
    (parse.pc = "done" /\ parse.result.ok) =>
        \A k \in 1..Len(parse.result.questions) :
            LET q == parse.result.questions[k]
            IN /\ {1, 2, 3, 4} \subseteq DOMAIN q.options
               /\ q.ans.kind = "letter"
               /\ q.ans.label \in DOMAIN q.options

C16_Witness ==
    /\ parse.pc = "done"
    /\ parse.result.ok
    /\ Len(parse.result.questions) = 2
    /\ 5 \in DOMAIN parse.result.questions[1].options
    /\ parse.result.questions[2].ans.label = 2

\* C17: the second call of validate_and_parse on a text returns what the
\* first call on it returned, whatever text was parsed in between.
C17_SameTextSameResult ==
    (parse.pc = "done" /\ parse.calls = 3) => parse.result = parse.first

C17_Witness ==
    /\ parse.pc = "done"
    /\ parse.calls = 3
    /\ parse.prev_raw # parse.raw
    /\ parse.result.ok
    /\ ~validate_and_parse(parse.prev_raw).ok
    /\ parse.result.des.some

\* C18: the sequence a stashed job carries for the delivery engine holds the
\* parsed items of its text, the announcement and every question, so
\* [Announcement, Question] for a DES line followed by one question block.
C18_StashedSequenceIsParsed ==
    \A j \in DOMAIN JOB_STASH :
        LET res == validate_and_parse(JOB_STASH[j].raw_text)
        IN Len(JOB_STASH[j].sequence) = (IF res.des.some THEN 1 ELSE 0) + Len(res.questions)

\* a text that is one block: a Q: line, four option lines that declare A, B,
\* C and D, an ANS: line with one of these letters, an EXP: line
WellFormedBlock(text) ==
    /\ Len(text) = 7
    /\ text[1].tag = "Q"
    /\ \A p \in 2..5 : text[p].tag = "OPT"
    /\ {text[p].label : p \in 2..5} = {1, 2, 3, 4}
    /\ text[6].tag = "ANS" /\ text[6].form = "upper" /\ text[6].label \in {1, 2, 3, 4}
    /\ text[7].tag = "EXP"

\* C19: a well-formed block is accepted without any error and gives exactly
\* one question, with the Q: text as prompt, each option's text under its
\* label, the ANS letter as correct label and the EXP text as explanation.
C19_WellFormedBlockParsed ==
    (parse.pc = "done" /\ WellFormedBlock(parse.raw)) =>
        LET r == parse.result
        IN /\ r.ok
           /\ r.errors = <<>>
           /\ Len(r.questions) = 1
           /\ LET q == r.questions[1]
              IN /\ q.errors = <<>>
                 /\ q.raw_question = parse.raw[1].text
                 /\ DOMAIN q.options = {1, 2, 3, 4}
                 /\ \A p \in 2..5 : q.options[parse.raw[p].label] = parse.raw[p].text
                 /\ q.ans = [kind |-> "letter", label |-> parse.raw[6].label]
                 /\ q.exp = SomeText(parse.raw[7].text)

C19_Witness ==
    /\ parse.pc = "done"
    /\ WellFormedBlock(parse.raw)
    /\ parse.raw[2].label = 3
    /\ parse.raw[6].label = 4
    /\ parse.result.ok
    /\ parse.result.questions[1].raw_question = <<"2+2?">>
    /\ parse.result.questions[1].options[3] = <<"5">>

\* the "EXP:" lines of a block that no "ANS:" line of the block precedes
EarlyExp(block) ==
    {p \in 1..Len(block) : block[p].tag = "EXP" /\ \A r \in 1..(p - 1) : block[r].tag # "ANS"}

\* the last "EXP:" line of a block that has one
LastExp(block) ==
    CHOOSE p \in 1..Len(block) :
        /\ block[p].tag = "EXP"
        /\ \A r \in (p + 1)..Len(block) : block[r].tag # "EXP"

\* the number of "EXP must come after ANS" errors of a question
OrderErrors(q) == Cardinality({e \in DOMAIN q.errors : q.errors[e][1] = "EXP must come after ANS"})

\* C20 as stated: a block with an EXP: line before any ANS: line of the block
\* makes the result not ok, with exactly one error for the ordering
\* violation, and the question keeps an explanation.
C20_OneErrorForEarlyExp ==
    parse.pc = "done" =>
        \A k \in 1..Len(parse.result.questions) :
            EarlyExp(BlockLines(parse.lines, k)) # {} =>
                /\ ~parse.result.ok
                /\ OrderErrors(parse.result.questions[k]) = 1
                /\ parse.result.questions[k].exp.some

\* C20, amended: a question has one ordering error for every EXP: line of
\* its block that no ANS: line of the block precedes; with such a line the
\* result is not ok and the question keeps the text of the block's last
\* EXP: line.
C20_ErrorPerEarlyExp ==
    parse.pc = "done" =>
        \A k \in 1..Len(parse.result.questions) :
            LET block == BlockLines(parse.lines, k)
                q == parse.result.questions[k]
            IN /\ OrderErrors(q) = Cardinality(EarlyExp(block))
               /\ EarlyExp(block) # {} =>
                     /\ ~parse.result.ok
                     /\ q.exp.some
                     /\ q.exp.text = block[LastExp(block)].text

C20_Witness ==
    /\ parse.pc = "done"
    /\ Len(parse.result.questions) = 1
    /\ Cardinality(EarlyExp(BlockLines(parse.lines, 1))) = 1
    /\ \E p \in 1..Len(parse.lines) : parse.lines[p].tag = "ANS"
    /\ ~parse.result.ok
    /\ parse.result.questions[1].errors = <<<<"EXP must come after ANS", 1>>>>
    /\ parse.result.questions[1].exp = [some |-> TRUE, text |-> <<"basic", "arithmetic">>]

\* the positions of the block start lines of a bulk text, in order
BlockStarts(text) == SortedLabels({i \in 1..Len(text) : text[i].kind \in {"msg", "q"}})

\* the position after the last line of the block that starts at line s
BlockEnd(text, s) ==
    IF \E i \in (s + 1)..Len(text) : text[i].kind \in {"msg", "q"}
    THEN CHOOSE i \in (s + 1)..Len(text) :
            /\ text[i].kind \in {"msg", "q"}
            /\ \A j \in (s + 1)..(i - 1) : text[j].kind \notin {"msg", "q"}
    ELSE Len(text) + 1

\* the blocks that give an action: every #Q block, every #MSG block with a
\* line that is not blank
ActionStarts(text) ==
    SelectSeq(BlockStarts(text),
              LAMBDA s : text[s].kind = "q" \/ \E i \in (s + 1)..(BlockEnd(text, s) - 1) : text[i].kind # "blank")

\* the words of the lines a..b that are not blank
RECURSIVE WordsOf(_, _, _)
WordsOf(text, a, b) ==
    IF a > b THEN <<>>
    ELSE (IF text[a].kind = "blank" THEN <<>> ELSE WholeLine(text[a])) \o WordsOf(text, a + 1, b)

\* the option texts of the lines a..b
RECURSIVE OptionsOf(_, _, _)
OptionsOf(text, a, b) ==
    IF a > b THEN <<>>
    ELSE (IF text[a].kind = "opt" THEN <<text[a].text>> ELSE <<>>) \o OptionsOf(text, a + 1, b)

\* C21: the actions parse_bulk returns are, in the order of the text, one
\* MSG action for every #MSG block that has a non-blank line and one POLL
\* action for every #Q block, each made from the lines of its own block.
C21_OneActionPerBlockInOrder ==
    bulk.pc = "returned" =>
        LET starts == ActionStarts(bulk.text)
            actions == bulk.result.actions
        IN /\ Len(actions) = Len(starts)
           /\ \A k \in 1..Len(starts) :
                 LET s == starts[k]
                     e == BlockEnd(bulk.text, s) - 1
                 IN IF bulk.text[s].kind = "msg"
                    THEN /\ actions[k].type = "MSG"
                         /\ actions[k].text = WordsOf(bulk.text, s + 1, e)
                    ELSE /\ actions[k].type = "POLL"
                         /\ actions[k].options = OptionsOf(bulk.text, s + 1, e)
                         /\ \E n \in 1..Len(actions[k].text) :
                               actions[k].text = WordsOf(bulk.text, s + 1, s + n)

C21_Witness ==
    /\ bulk.pc = "returned"
    /\ Len(bulk.blocks) = 4
    /\ Len(bulk.result.actions) = 3
    /\ bulk.result.actions[1].type = "MSG"
    /\ bulk.result.actions[1].text = <<"Maths">>
    /\ bulk.result.actions[2].type = "POLL"
    /\ bulk.result.actions[2].text = <<"Pick">>
    /\ bulk.result.actions[3].type = "MSG"
    /\ bulk.result.actions[3].text = <<"Done">>

\* a bulk text with a #Q block that has fewer than two option lines
HasShortBlock(text) ==
    \E k \in 1..Len(BlockStarts(text)) :
        LET s == BlockStarts(text)[k]
        IN /\ text[s].kind = "q"
           /\ Len(OptionsOf(text, s + 1, BlockEnd(text, s) - 1)) < 2

\* C22: a call of parse_bulk on a text with a #Q block of fewer than two
\* option lines never returns: its loop cannot run out of blocks, and where
\* it ends it has raised ParseError and hands over no action, whatever the
\* blocks before had added.
C22_ShortBlockRaises ==
    HasShortBlock(bulk.text) =>
        /\ bulk.pc # "returned"
        /\ bulk.pc = "loop" => bulk.idx <= Len(bulk.blocks)
        /\ bulk.pc = "raised" => bulk.result.error /\ bulk.result.actions = <<>>

C22_Witness ==
    /\ bulk.pc = "raised"
    /\ HasShortBlock(bulk.text)
    /\ bulk.idx = 2
    /\ Len(bulk.actions) = 1
    /\ bulk.actions[1].type = "POLL"
    /\ bulk.result.actions = <<>>

\* a bulk text with a #Q block that has no #ANS line and, after its first
\* option line, an #EXP line with an explanation that is not empty
HasExpWithoutAns(text) ==
    \E k \in 1..Len(BlockStarts(text)) :
        LET s == BlockStarts(text)[k]
            e == BlockEnd(text, s) - 1
        IN /\ text[s].kind = "q"
           /\ \A i \in (s + 1)..e : text[i].kind # "ans"
           /\ \E i \in (s + 1)..e :
                 /\ text[i].kind = "exp"
                 /\ text[i].text # <<>>
                 /\ \E j \in (s + 1)..(i - 1) : text[j].kind = "opt"

\* C23: a call of parse_bulk on a text with a #Q block that holds an #EXP
\* line with a non-empty explanation after its options and no #ANS line
\* does not return, it raises ParseError.
C23_ExpWithoutAnsRaises ==
    HasExpWithoutAns(bulk.text) =>
        /\ bulk.pc # "returned"
        /\ bulk.pc = "loop" => bulk.idx <= Len(bulk.blocks)

\* the #ANS lines of the block s..e that the second loop reads: those after
\* the block's first option line
AnswerLines(text, s, e) ==
    {i \in (s + 1)..e : text[i].kind = "ans" /\ \E j \in (s + 1)..(i - 1) : text[j].kind = "opt"}

\* C24: in what parse_bulk returns, the answer_index of a POLL made from a
\* block with an #ANS value is the position that value designates, letter A
\* or number 1 for the first option, B or 2 for the second, and so on, and
\* that position is one of the action's options; a value that designates no
\* option makes the call raise instead.
C24_AnswerIndexDesignated ==
    bulk.pc = "returned" =>
        \A k \in 1..Len(ActionStarts(bulk.text)) :
            LET s == ActionStarts(bulk.text)[k]
                e == BlockEnd(bulk.text, s) - 1
                a == bulk.result.actions[k]
                answers == AnswerLines(bulk.text, s, e)
            IN (bulk.text[s].kind = "q" /\ answers # {}) =>
                  LET last == CHOOSE i \in answers : \A j \in answers : j <= i
                      designated == bulk.text[last].val.n - 1
                  IN /\ 0 <= designated
                     /\ designated < Len(a.options)
                     /\ a.answer_index = designated

\* C25: a question whose send_poll call was answered with a permanent error
\* is not tried again: one call was made for it and no further call is
\* pending. (Under SpecPermanent every failure counted in errs is permanent.)
C25_PermanentNotRetried ==
    \A t \in Threads :
        obs[t].errs >= 1 => (obs[t].polls = 1 /\ run[t].pc # "poll")

\* C26: at most max_retries send_poll calls for one question end in a
\* transient failure; the k-th of them is followed by a back-off of
\* min(2^k, 30) seconds; the question whose attempts are used up fails and
\* adds exactly one to the consecutive-failure counter. (Under SpecTransient
\* errs counts the transient failures of the current question.)
C26_BackoffAfterKthFailure ==
    /\ [](\A t \in Threads : obs[t].errs <= max_retries)
    /\ [][\A t \in Threads :
            /\ obs'[t].errs = obs[t].errs + 1 => obs'[t].waited = Min(2 ^ obs'[t].errs, BackoffCap)
            /\ run[t].pc = "exhausted" =>
                  run'[t].consecutive_failures = run[t].consecutive_failures + 1]_vars

\* the question items among the items a..b of the sequence of invocation t
QuestionsIn(t, a, b) ==
    Cardinality({p \in a..b : p <= Len(arg[t].sequence) /\ arg[t].sequence[p].type = "question"})

\* C27: consecutive_failures is the number of question items since the
\* latest question that was posted, announcements and unknown items between
\* them not counted: the items done so far while an item is between its
\* dispatch and its outcome, all items up to idx otherwise. The run goes on
\* only below the threshold and aborts exactly at it.
C27_CounterIsFailedQuestionsInARow ==
    \A t \in Threads :
        /\ run[t].pc \in {"des", "poll", "invalid", "exhausted", "unhandled"} =>
              run[t].consecutive_failures = QuestionsIn(t, obs[t].lastOkIdx + 1, run[t].idx - 1)
        /\ run[t].pc \in {"loop", "final", "final_add", "returned"} =>
              run[t].consecutive_failures = QuestionsIn(t, obs[t].lastOkIdx + 1, run[t].idx)
        /\ run[t].pc \in {"loop", "final", "final_add"} =>
              run[t].consecutive_failures < sequential_fail_abort
        /\ obs[t].abortIdx # 0 <=>
              (run[t].pc = "returned" /\ run[t].consecutive_failures = sequential_fail_abort)

C27_Witness ==
    /\ run[1].pc = "returned"
    /\ obs[1].abortIdx = 0
    /\ obs[1].failedQ = 2
    /\ obs[1].lastOkIdx = 2
    /\ run[1].consecutive_failures = 1
    /\ arg[1].sequence[1].type = "question"

\* C28: the step in which the gateway refuses an announcement is the only
\* send made for it, changes neither consecutive_failures nor sent_count and
\* goes back to the loop head; the step after it takes the next item of the
\* sequence, or ends the loop when the announcement was the last item.
C28_FailedDesChangesNothing ==
    [][\A t \in Threads :
          /\ (obs'[t].desFailed /\ ~obs[t].desFailed) =>
                /\ run[t].pc = "des"
                /\ run'[t].pc = "loop"
                /\ run'[t].idx = run[t].idx
                /\ run'[t].consecutive_failures = run[t].consecutive_failures
                /\ run'[t].sent_count = run[t].sent_count
                /\ obs'[t].sends = 1
          /\ (obs[t].desFailed /\ run'[t] # run[t]) =>
                /\ run'[t].consecutive_failures = run[t].consecutive_failures
                /\ IF run[t].idx < Len(arg[t].sequence)
                   THEN /\ run'[t].idx = run[t].idx + 1
                        /\ run'[t].pc \in {"des", "poll", "invalid", "unhandled", "loop"}
                   ELSE run'[t].pc = "final"]_vars

C28_Witness ==
    /\ obs[1].desFailed
    /\ run[1].pc = "loop"
    /\ run[1].idx = 2
    /\ run[1].consecutive_failures = 1
    /\ Len(arg[1].sequence) = 3
    /\ arg[1].sequence[3].type = "question"

\* the labels of an item that come before label l
LabelsBefore(item, l) == {m \in DOMAIN item.options : m < l}

\* C29: every send_poll call is made for a question whose ans is one of its
\* option labels; the options passed are the option texts in ascending
\* order of their labels, and correct_option_id is the position of the ans
\* label in that order, so that the option at that position is the text
\* declared under the ans label.
C29_OptionsInLabelOrder ==
    \A t \in Threads :
        obs[t].polls >= 1 =>
            LET item == arg[t].sequence[run[t].idx]
                texts == obs[t].sentOptions
            IN /\ item.ans \in DOMAIN item.options
               /\ Len(texts) = Cardinality(DOMAIN item.options)
               /\ \A l \in DOMAIN item.options :
                     texts[Cardinality(LabelsBefore(item, l)) + 1] = item.options[l]
               /\ obs[t].sentCorrect = Cardinality(LabelsBefore(item, item.ans))
               /\ texts[obs[t].sentCorrect + 1] = item.options[item.ans]

C29_Witness ==
    /\ obs[1].polls >= 1
    /\ DOMAIN arg[1].sequence[run[1].idx].options = {1, 3, 4}
    /\ arg[1].sequence[run[1].idx].ans = 3
    /\ obs[1].sentOptions = <<"3", "5", "6">>
    /\ obs[1].sentCorrect = 1

\* C30: the sleep that follows a posted question is the short delay when the
\* job holds at most 50 question items and the long delay when it holds
\* more, however many announcements the sequence has.
C30_DelayByQuestionCount ==
    \A t \in Threads :
        (run[t].pc = "loop" /\ run[t].idx >= 1 /\ obs[t].lastOkIdx = run[t].idx
            /\ obs[t].lastCallIdx = run[t].idx) =>
            obs[t].waited = IF CountQuestions(arg[t].sequence) <= LongSequence
                            THEN poll_delay_short ELSE poll_delay_long

\* C31: of two jobs run without a job_id for the same chat and owner, each
\* run that reaches its end without aborting has sent its own final
\* confirmation to the owner, also when both delivered the same number of
\* polls.
C31_EachJobConfirmed ==
    \A t \in Threads :
        (/\ arg[t].job_id = None
         /\ arg[t].owner_id # None
         /\ run[t].pc = "returned"
         /\ obs[t].abortIdx = 0)
            => obs[t].finalConf

\* the labels of the option lines of the question block line p belongs to
\* (none when no "Q:" line precedes p)
DeclaredLabels(lines, p) ==
    LET before == {s \in 1..(p - 1) : q_re(lines[s])}
    IN IF before = {} THEN {}
       ELSE LET s == CHOOSE x \in before : \A y \in before : y <= x
                after == {e \in (p + 1)..Len(lines) : q_re(lines[e])}
                e == IF after = {} THEN Len(lines) + 1
                     ELSE CHOOSE x \in after : \A y \in after : x <= y
            IN {lines[x].label : x \in {y \in (s + 1)..(e - 1) : lines[y].tag = "OPT"}}

\* the "ANS:" lines of a text whose value is a digit k with 1 <= k <= the
\* number of options declared in their block
NumericAnswers(lines) ==
    {p \in 1..Len(lines) :
        /\ ans_re(lines[p])
        /\ lines[p].form = "digit"
        /\ lines[p].label >= 1
        /\ lines[p].label <= Cardinality(DeclaredLabels(lines, p))}

\* the text with the letter of the same position in place of each such digit
WithLetterAnswers(lines) ==
    [p \in 1..Len(lines) |-> IF p \in NumericAnswers(lines) THEN LAns(lines[p].label) ELSE lines[p]]

\* C32: an "ANS:" value that is a 1-based index k into the declared options
\* is taken as the k-th letter: the text gives the result it gives with that
\* letter written in its place, and the question does not get the error
\* "ANS must be a single letter".
C32_NumericAnsAccepted ==
    (parse.pc = "done" /\ NumericAnswers(parse.raw) # {}) =>
        parse.result = validate_and_parse(WithLetterAnswers(parse.raw))

\* C33: when a label is declared twice in a question block, the question
\* holds the text of the later declaration under that label and has a
\* warning for the re-declaration.
C33_RedeclaredOptionWarned ==
    parse.pc = "done" =>
        \A k \in 1..Len(parse.result.questions) :
            LET b == BlockLines(strip_eg_lines(parse.raw), k)
                q == parse.result.questions[k]
            IN \A x, y \in 1..Len(b) :
                  (/\ x < y
                   /\ b[x].tag = "OPT" /\ b[y].tag = "OPT" /\ b[x].label = b[y].label
                   /\ \A z \in (y + 1)..Len(b) : b[z].tag \notin {"OPT", "other"} \cup {l.tag : l \in LowerCaseLines})
                      => /\ q.options[b[y].label] = b[y].text
                         /\ q.warnings # <<>>

\* the lines of a block that carry no tag and stand before its first option
PromptLines(b) ==
    {x \in 2..Len(b) : b[x].tag = "other" /\ \A y \in 2..(x - 1) : b[y].tag # "OPT"}

\* the text of "Q:" followed by the words of those lines, in order
RECURSIVE PromptFrom(_, _)
PromptFrom(b, x) ==
    IF x > Len(b) THEN <<>>
    ELSE (IF x \in PromptLines(b) THEN b[x].text ELSE <<>>) \o PromptFrom(b, x + 1)

\* C34: the lines of a question block that carry no tag and precede its
\* first option are part of the question's prompt, in order after the text
\* of the "Q:" line, and the question has no warning for them.
C34_PromptContinued ==
    parse.pc = "done" =>
        \A k \in 1..Len(parse.result.questions) :
            LET b == BlockLines(strip_eg_lines(parse.raw), k)
                q == parse.result.questions[k]
            IN (/\ PromptLines(b) # {}
                /\ \A x \in 1..Len(b) : b[x] \notin LowerCaseLines)
                  => /\ q.raw_question = b[1].text \o PromptFrom(b, 2)
                     /\ q.warnings = <<>>

\* the options of a block when every line without a tag is added to the
\* option declared last before it (recent: its label, 0 before any option)
RECURSIVE OptionsByRecency(_, _, _, _)
OptionsByRecency(b, x, options, recent) ==
    IF x > Len(b) THEN options
    ELSE IF b[x].tag = "OPT"
         THEN OptionsByRecency(b, x + 1, SetOption(options, b[x].label, b[x].text), b[x].label)
    ELSE IF b[x].tag = "other" /\ recent # 0
         THEN OptionsByRecency(b, x + 1, [options EXCEPT ![recent] = @ \o b[x].text], recent)
    ELSE OptionsByRecency(b, x + 1, options, recent)

\* the block has a line without a tag after an option, and none after "ANS:"
HasWrappedOption(b) ==
    /\ \E x \in 2..Len(b) : b[x].tag = "other" /\ \E y \in 2..(x - 1) : b[y].tag = "OPT"
    /\ \A x \in 2..Len(b) : b[x].tag = "other" => \A y \in 2..(x - 1) : b[y].tag # "ANS"
    /\ \A x \in 1..Len(b) : b[x] \notin LowerCaseLines

\* C35: a line without a tag that follows an option and precedes "ANS:" is
\* added to the text of the option declared last before it, whatever the
\* order of the labels, and no other option's text is changed.
C35_WrappedTextToLatestOption ==
    parse.pc = "done" =>
        \A k \in 1..Len(parse.result.questions) :
            LET b == BlockLines(strip_eg_lines(parse.raw), k)
            IN HasWrappedOption(b) =>
                  parse.result.questions[k].options = OptionsByRecency(b, 2, <<>>, 0)

\* a block without its "DES:" lines
RECURSIVE WithoutDes(_)
WithoutDes(b) ==
    IF b = <<>> THEN <<>>
    ELSE (IF des_re(Head(b)) THEN <<>> ELSE <<Head(b)>>) \o WithoutDes(Tail(b))

\* C36: a "DES:" line inside a question block gives ok = false and an error
\* in that question for the nested announcement; the block's other lines are
\* parsed as without it; and the result holds the announcement's text.
C36_NestedDesKept ==
    parse.pc = "done" =>
        \A k \in 1..Len(parse.result.questions) :
            LET b == BlockLines(strip_eg_lines(parse.raw), k)
                q == parse.result.questions[k]
                alone == validate_and_parse(WithoutDes(b)).questions[1]
            IN \A x \in 2..Len(b) :
                  des_re(b[x]) =>
                      /\ ~parse.result.ok
                      /\ \E e \in 1..Len(q.errors) : q.errors[e][1] = "DES found inside question block"
                      /\ q.options = alone.options /\ q.ans = alone.ans /\ q.exp = alone.exp
                      /\ parse.result.des = SomeText(b[x].text)

\* the texts of the "DES:" lines that stand before the first "Q:" line
RECURSIVE LeadingAnnouncements(_)
LeadingAnnouncements(lines) ==
    IF lines = <<>> \/ q_re(Head(lines)) THEN <<>>
    ELSE (IF des_re(Head(lines)) THEN <<Head(lines).text>> ELSE <<>>) \o LeadingAnnouncements(Tail(lines))

\* the announcements a result holds
AnnouncementsOf(result) == IF result.des.some THEN <<result.des.text>> ELSE <<>>

\* C37: the result holds one announcement for every "DES:" line that stands
\* outside a question block, in the order of the lines.
C37_EveryAnnouncementKept ==
    parse.pc = "done" =>
        AnnouncementsOf(parse.result) = LeadingAnnouncements(strip_eg_lines(parse.raw))

\* a line with its tag keyword written in upper case
UpperTag(ln) ==
    CASE ln.tag = "des" -> [ln EXCEPT !.tag = "DES"]
      [] ln.tag = "q" -> [ln EXCEPT !.tag = "Q"]
      [] ln.tag = "opt" -> [ln EXCEPT !.tag = "OPT"]
      [] ln.tag = "ans" -> [ln EXCEPT !.tag = "ANS"]
      [] ln.tag = "exp" -> [ln EXCEPT !.tag = "EXP"]
      [] OTHER -> ln

\* what of a result the case of the tags must not change
Content(result) ==
    [ok |-> result.ok, des |-> result.des,
     questions |-> [k \in DOMAIN result.questions |->
                       [raw_question |-> result.questions[k].raw_question,
                        options |-> result.questions[k].options,
                        ans |-> result.questions[k].ans,
                        exp |-> result.questions[k].exp]]]

\* C38: a text with tag keywords written in lower case gives the questions,
\* options, correct labels, announcement and ok value of the same text with
\* the keywords in upper case.
C38_TagsInEitherCase ==
    parse.pc = "done" =>
        Content(parse.result) = Content(validate_and_parse([p \in DOMAIN parse.raw |-> UpperTag(parse.raw[p])]))

\* C39: send_actions_to_chat stops at the first action whose three attempts
\* all fail: no gateway call is made for a later action, and the summary has
\* failed <= 1, sent + failed <= the number of actions, sent = the number of
\* actions before the failing one and errors = its 1-based index.
C39_StopsAtFirstFailure ==
    /\ send.failed <= 1
    /\ send.sent + send.failed <= Len(send.actions)
    /\ \A i \in 1..Len(send.actions) :
          (send.actions[i].type \in {"MSG", "POLL"} /\ \E e \in 1..Len(send.errors) : send.errors[e] = i)
              => /\ send.calls[i] = SendAttempts
                 /\ \A j \in (i + 1)..Len(send.actions) : send.calls[j] = 0
                 /\ send.pc = "returned"
                 /\ send.failed = 1
                 /\ send.sent = i - 1
                 /\ send.errors = <<i>>

C39_Witness ==
    /\ send.pc = "returned"
    /\ Len(send.actions) = 3
    /\ send.actions[2].type = "POLL"
    /\ send.calls = <<2, 3, 0>>
    /\ send.sent = 1
    /\ send.failed = 1
    /\ send.errors = <<2>>

\* C40: an action of a type other than MSG and POLL is skipped: the call does
\* not raise, the action is in no entry of errors and is not counted in
\* failed, and the actions after it are sent, so that a call in which no
\* gateway call was refused returns sent = the number of MSG and POLL actions
\* and failed = 0.
C40_UnknownTypeSkipped ==
    /\ send.pc # "raised"
    /\ \A i \in 1..Len(send.actions) :
          send.actions[i].type \notin {"MSG", "POLL"} => \A e \in 1..Len(send.errors) : send.errors[e] # i
    /\ (send.pc = "returned" /\ ~send.last_err) =>
          /\ send.failed = 0
          /\ send.sent = Cardinality({i \in 1..Len(send.actions) : send.actions[i].type \in {"MSG", "POLL"}})

====
